---- MODULE Spec2Model ----
(***************************************************************************)
(* Model of FsContentsManager (src/jupyter_pyfilesystem/contents.py): the  *)
(* Jupyter contents manager layered on a PyFilesystem backend.             *)
(*                                                                         *)
(* Strings.  A path string is modelled by the sequence of its components,  *)
(* the pieces between the "/" characters, exactly what str.split("/")      *)
(* returns: "" is <<"">>, "/" is <<"", "">>, "a/b" is <<"a", "b">> and     *)
(* "/a/b" is <<"", "a", "b">>.  Concatenating s + "/" + t is s \o t.       *)
(* Any other string (file content, base64 text) is the sequence of its     *)
(* code points.  Bytes are sequences of integers 0..255.                   *)
(***************************************************************************)
EXTENDS Integers, Sequences, FiniteSets, TLC

VARIABLES store, prev, last

vars == <<store, prev, last>>

----------------------------------------------------------------------------
(* Bounds of the model.                                                    *)

\* longest client path, in components
MaxSegs == 2
\* deepest entry below the root
MaxDepth == 2
\* most entries below the root
MaxEntries == 3
\* longest file content, in bytes
MaxLen == 2
\* the requests of other clients that run between two steps of a request
MaxBetween == 1

----------------------------------------------------------------------------
(* Python values.                                                          *)

None == <<>>
Some(x) == <<x>>

NoExc == "ok"

Front(s) == SubSeq(s, 1, Len(s) - 1)
Last(s) == s[Len(s)]

\* the entry names of the model; one of them ends in ".ipynb"
Names == {"a", "n.ipynb"}
IpynbNames == {"n.ipynb"}

\* str.endswith('.ipynb') on a path string: '.ipynb' holds no "/", so only
\* the last component decides
endswith_ipynb(path) == Last(path) \in IpynbNames

\* str.startswith("/")
startswith_slash(path) == Len(path) >= 2 /\ path[1] = ""

----------------------------------------------------------------------------
(* fs.path, the path functions of PyFilesystem that the manager calls.     *)

\* the regular expression (^|/)\.\.?($|/)|// : a "." or ".." component, or
\* two adjacent slashes
requires_normalization(path) ==
    \/ \E i \in 1..Len(path) : path[i] \in {".", ".."}
    \/ \E i \in 2..(Len(path) - 1) : path[i] = ""

RECURSIVE rstrip_slash(_)
rstrip_slash(path) ==
    IF Len(path) > 1 /\ Last(path) = "" THEN rstrip_slash(Front(path)) ELSE path

RECURSIVE lstrip_slash(_)
lstrip_slash(path) ==
    IF Len(path) > 1 /\ path[1] = "" THEN lstrip_slash(Tail(path)) ELSE path

\* str.strip('/')
strip_slash(path) == lstrip_slash(rstrip_slash(path))

\* the loop of normpath over path.split("/"): [ok, components]; ok is FALSE
\* when ".." pops an empty list (IndexError)
RECURSIVE normpath_loop(_, _)
normpath_loop(todo, components) ==
    IF todo = <<>> THEN [ok |-> TRUE, components |-> components]
    ELSE LET component == Head(todo) IN
         IF component \in {"", ".", ".."}
         THEN IF component = ".."
              THEN IF components = <<>>
                   THEN [ok |-> FALSE, components |-> <<>>]
                   ELSE normpath_loop(Tail(todo), Front(components))
              ELSE normpath_loop(Tail(todo), components)
         ELSE normpath_loop(Tail(todo), Append(components, component))

\* prefix + "/".join(components)
join_components(prefix, components) ==
    IF components = <<>>
    THEN (IF prefix THEN <<"", "">> ELSE <<"">>)
    ELSE (IF prefix THEN <<"">> \o components ELSE components)

\* fs.path.normpath: [exc, path]
normpath(path) ==
    IF path \in {<<"">>, <<"", "">>} THEN [exc |-> NoExc, path |-> path]
    ELSE IF ~requires_normalization(path)
    THEN [exc |-> NoExc, path |-> rstrip_slash(path)]
    ELSE LET result(r) ==
                 IF r.ok
                 THEN [exc |-> NoExc,
                       path |-> join_components(startswith_slash(path), r.components)]
                 ELSE [exc |-> "IllegalBackReference", path |-> path]
         IN result(normpath_loop(path, <<>>))

\* fs.path.abspath
abspath(path) == IF startswith_slash(path) THEN path ELSE <<"">> \o path

\* FS.validatepath: abspath(normpath(path)); [exc, path]
validatepath(path) ==
    LET absolute(n) ==
            IF n.exc = NoExc THEN [exc |-> NoExc, path |-> abspath(n.path)] ELSE n
    IN absolute(normpath(path))

Root == <<"", "">>

\* fs.path.split: <<head, tail>>, two path strings
split(path) ==
    IF Len(path) = 1 THEN <<(<<"">>), path>>
    ELSE <<(IF Front(path) = <<"">> THEN Root ELSE Front(path)), <<Last(path)>> >>

\* fs.path.basename
basename(path) == split(path)[2]

\* fs.path.join of two path strings (validated inputs never raise here)
join(p1, p2) ==
    LET absolute(p) == p # <<"">> /\ startswith_slash(p)
        joined(relpaths) ==
            IF relpaths = <<>> THEN <<"">>
            ELSE IF Len(relpaths) = 1 THEN relpaths[1]
            ELSE relpaths[1] \o relpaths[2]
        result(n) == IF absolute(p1) \/ absolute(p2) THEN abspath(n) ELSE n
    IN result(normpath(joined(IF absolute(p2) THEN <<p2>>
                              ELSE SelectSeq(<<p1, p2>>, LAMBDA p : p # <<"">>))).path)

----------------------------------------------------------------------------
(* Content codec: str.encode('utf8'), bytes.decode('utf8'), b64encode and  *)
(* b64decode, computed on code points, bytes and base64 characters.        *)

\* the byte values and the characters of the model: "A" (one byte in UTF-8)
\* and "e acute" (two bytes, 195 169); 195 or 169 alone is not UTF-8
ByteVals == {65, 169, 195}
CharVals == {65, 233}

RECURSIVE SeqsUpTo(_, _)
SeqsUpTo(S, n) ==
    IF n = 0 THEN {<<>>}
    ELSE LET shorter == SeqsUpTo(S, n - 1) IN
         shorter \cup {Append(s, x) : s \in shorter, x \in S}

\* one code point as UTF-8 (one- and two-byte forms)
utf8_char(cp) ==
    IF cp < 128 THEN <<cp>> ELSE <<192 + (cp \div 64), 128 + (cp % 64)>>

\* str.encode('utf8')
RECURSIVE utf8_encode(_)
utf8_encode(text) ==
    IF text = <<>> THEN <<>> ELSE utf8_char(Head(text)) \o utf8_encode(Tail(text))

\* bytes.decode('utf8'): [ok, text]; ok is FALSE for UnicodeDecodeError.
\* Lead bytes of three- and four-byte forms are outside ByteVals.
RECURSIVE utf8_decode(_)
utf8_decode(b) ==
    IF b = <<>> THEN [ok |-> TRUE, text |-> <<>>]
    ELSE IF b[1] < 128
    THEN LET one(r) == [ok |-> r.ok, text |-> <<b[1]>> \o r.text]
         IN one(utf8_decode(Tail(b)))
    ELSE IF b[1] >= 194 /\ b[1] <= 223 /\ Len(b) >= 2 /\ b[2] >= 128 /\ b[2] <= 191
    THEN LET two(r) ==
                 [ok |-> r.ok, text |-> <<(b[1] - 192) * 64 + (b[2] - 128)>> \o r.text]
         IN two(utf8_decode(Tail(Tail(b))))
    ELSE [ok |-> FALSE, text |-> <<>>]

\* the base64 alphabet A-Z a-z 0-9 + / as code points, and "="
b64_char(i) ==
    IF i < 26 THEN 65 + i
    ELSE IF i < 52 THEN 97 + (i - 26)
    ELSE IF i < 62 THEN 48 + (i - 52)
    ELSE IF i = 62 THEN 43 ELSE 47

b64_pad == 61

b64_index(c) == CHOOSE i \in 0..63 : b64_char(i) = c

is_b64_char(c) == \E i \in 0..63 : b64_char(i) = c

\* base64.b64encode(b).decode('ascii')
RECURSIVE b64encode(_)
b64encode(b) ==
    IF b = <<>> THEN <<>>
    ELSE IF Len(b) = 1
    THEN <<b64_char(b[1] \div 4), b64_char((b[1] % 4) * 16), b64_pad, b64_pad>>
    ELSE IF Len(b) = 2
    THEN <<b64_char(b[1] \div 4),
           b64_char((b[1] % 4) * 16 + (b[2] \div 16)),
           b64_char((b[2] % 16) * 4), b64_pad>>
    ELSE <<b64_char(b[1] \div 4),
           b64_char((b[1] % 4) * 16 + (b[2] \div 16)),
           b64_char((b[2] % 16) * 4 + (b[3] \div 64)),
           b64_char(b[3] % 64)>> \o b64encode(SubSeq(b, 4, Len(b)))

\* the quads of a base64 text to bytes: [ok, bytes]
RECURSIVE b64_quads(_)
b64_quads(s) ==
    IF s = <<>> THEN [ok |-> TRUE, bytes |-> <<>>]
    ELSE IF s[1] = b64_pad \/ s[2] = b64_pad THEN [ok |-> FALSE, bytes |-> <<>>]
    ELSE LET quad(i1, i2, i3, i4) ==
                 LET b1 == i1 * 4 + (i2 \div 16)
                     b2 == (i2 % 16) * 16 + (i3 \div 4)
                     b3 == (i3 % 4) * 64 + i4
                     rest(r) == [ok |-> r.ok, bytes |-> <<b1, b2, b3>> \o r.bytes]
                 IN
                 IF s[3] = b64_pad
                 THEN [ok |-> s[4] = b64_pad /\ Len(s) = 4, bytes |-> <<b1>>]
                 ELSE IF s[4] = b64_pad
                 THEN [ok |-> Len(s) = 4, bytes |-> <<b1, b2>>]
                 ELSE rest(b64_quads(SubSeq(s, 5, Len(s))))
         IN quad(b64_index(s[1]), b64_index(s[2]),
                 IF s[3] = b64_pad THEN 0 ELSE b64_index(s[3]),
                 IF s[4] = b64_pad THEN 0 ELSE b64_index(s[4]))

\* base64.b64decode(s): characters outside the alphabet are discarded, then
\* the text must be whole quads (binascii.Error otherwise): [ok, bytes]
b64decode(s) ==
    LET decoded(data) ==
            IF Len(data) % 4 # 0 THEN [ok |-> FALSE, bytes |-> <<>>]
            ELSE b64_quads(data)
    IN decoded(SelectSeq(s, LAMBDA c : is_b64_char(c) \/ c = b64_pad))

----------------------------------------------------------------------------
(* The backend: a PyFilesystem FS (the tests open "mem://").  The store    *)
(* maps the absolute normalized path of every entry to [is_dir, bytes];    *)
(* the root is always there and the parent of an entry is a directory.     *)
(* Every call returns the exception it raises in exc (NoExc: none).        *)

DirEntry == [is_dir |-> TRUE, bytes |-> <<>>]
FileEntry(b) == [is_dir |-> FALSE, bytes |-> b]

EmptyStore == Root :> DirEntry

dirname(path) == split(path)[1]

\* path is base or below it
isbase(base, path) ==
    base = Root \/ (Len(path) >= Len(base) /\ SubSeq(path, 1, Len(base)) = base)

\* FS.exists, FS.isdir, FS.isfile on a validated path
exists(st, path) == path \in DOMAIN st
isdir(st, path) == path \in DOMAIN st /\ st[path].is_dir
isfile(st, path) == path \in DOMAIN st /\ ~st[path].is_dir

\* FS.getdetails: [exc, is_dir, is_file, size]
getdetails(st, path) ==
    IF path \notin DOMAIN st
    THEN [exc |-> "ResourceNotFound", is_dir |-> FALSE, is_file |-> FALSE, size |-> 0]
    ELSE [exc |-> NoExc, is_dir |-> st[path].is_dir, is_file |-> ~st[path].is_dir,
          size |-> Len(st[path].bytes)]

\* FS.scandir: the names of the immediate children of a directory
scandir(st, path) ==
    {Last(q) : q \in {r \in DOMAIN st : r # Root /\ dirname(r) = path}}

\* openbin(path, 'r').read(): [exc, bytes]
openbin_read(st, path) ==
    LET opened(v) ==
            IF v.exc # NoExc THEN [exc |-> v.exc, bytes |-> <<>>]
            ELSE IF v.path \notin DOMAIN st
            THEN [exc |-> "ResourceNotFound", bytes |-> <<>>]
            ELSE IF st[v.path].is_dir THEN [exc |-> "FileExpected", bytes |-> <<>>]
            ELSE [exc |-> NoExc, bytes |-> st[v.path].bytes]
    IN opened(validatepath(path))

\* a faulty variant: the file is opened without truncation, the tail of a
\* longer old content stays behind the written bytes
write_overlaying(old, bcontent) ==
    bcontent \o SubSeq(old, Len(bcontent) + 1, Len(old))

\* what fo.write(bcontent) leaves in a file opened in mode 'w' (truncated)
write_truncating(old, bcontent) == bcontent

\* openbin(path, 'w') then write(bcontent): [exc, store]
openbin_write(st, path, bcontent) ==
    LET old(p) == IF p \in DOMAIN st THEN st[p].bytes ELSE <<>>
        opened(v) ==
            IF v.exc # NoExc THEN [exc |-> v.exc, store |-> st]
            ELSE IF v.path = Root THEN [exc |-> "FileExpected", store |-> st]
            ELSE IF ~isdir(st, dirname(v.path))
            THEN [exc |-> "ResourceNotFound", store |-> st]
            ELSE IF isdir(st, v.path) THEN [exc |-> "FileExpected", store |-> st]
            ELSE [exc |-> NoExc,
                  store |-> (v.path :> FileEntry(write_truncating(old(v.path), bcontent)))
                            @@ st]
    IN opened(validatepath(path))

\* makedir(path, recreate=True): [exc, store]
makedir(st, path) ==
    LET made(v) ==
            IF v.exc # NoExc THEN [exc |-> v.exc, store |-> st]
            ELSE IF v.path = Root THEN [exc |-> NoExc, store |-> st]
            ELSE IF ~isdir(st, dirname(v.path))
            THEN [exc |-> "ResourceNotFound", store |-> st]
            ELSE IF isfile(st, v.path) THEN [exc |-> "DirectoryExpected", store |-> st]
            ELSE IF isdir(st, v.path) THEN [exc |-> NoExc, store |-> st]
            ELSE [exc |-> NoExc, store |-> (v.path :> DirEntry) @@ st]
    IN made(validatepath(path))

without(st, gone) == [q \in DOMAIN st \ gone |-> st[q]]

\* FS.remove of a file (the caller checked isfile)
remove(st, path) == [exc |-> NoExc, store |-> without(st, {path})]

\* FS.removedir (the caller checked isdir)
removedir(st, path) ==
    IF path = Root THEN [exc |-> "RemoveRootError", store |-> st]
    ELSE IF scandir(st, path) # {} THEN [exc |-> "DirectoryNotEmpty", store |-> st]
    ELSE [exc |-> NoExc, store |-> without(st, {path})]

\* a faulty variant: the other entries of the source's directory are lost
relocate_alone(st, src, dst) ==
    LET moved == {q \in DOMAIN st : isbase(src, q)}
        kept == {q \in DOMAIN st \ moved :
                    ~isbase(dst, q) /\ (q = Root \/ dirname(q) # dirname(src))}
        to(q) == dst \o SubSeq(q, Len(src) + 1, Len(q))
    IN [q \in kept \cup {to(m) : m \in moved} |->
           IF q \in kept THEN st[q]
           ELSE st[CHOOSE m \in moved : to(m) = q]]

\* the entry at src and everything below it, taken to dst
relocate(st, src, dst) ==
    LET moved == {q \in DOMAIN st : isbase(src, q)}
        kept == {q \in DOMAIN st \ moved : ~isbase(dst, q)}
        to(q) == dst \o SubSeq(q, Len(src) + 1, Len(q))
    IN [q \in kept \cup {to(m) : m \in moved} |->
           IF q \in kept THEN st[q]
           ELSE st[CHOOSE m \in moved : to(m) = q]]

\* The two implementations of move and movedir that PyFilesystem 2 ships:
\* "copy", FS.move / FS.movedir of fs.base (copy to the target, remove the
\* source), and "relink", MemoryFS from 2.4.13 (the source's entry is set in
\* the target's parent and removed from its own).
BackendImpls == {"copy", "relink"}

\* a faulty variant: a move with overwrite=True, that replaces what is at dst
move_overwriting(st, src, dst, impl) ==
    IF ~exists(st, src) THEN [exc |-> "ResourceNotFound", store |-> st]
    ELSE IF isdir(st, src) THEN [exc |-> "FileExpected", store |-> st]
    ELSE IF ~isdir(st, dirname(dst)) THEN [exc |-> "ResourceNotFound", store |-> st]
    ELSE IF src = dst THEN [exc |-> NoExc, store |-> st]
    ELSE [exc |-> NoExc, store |-> relocate(st, src, dst)]

\* a faulty variant: a move that does not look for its source
move_unchecked_source(st, src, dst, impl) ==
    IF exists(st, dst) THEN [exc |-> "DestinationExists", store |-> st]
    ELSE IF ~isdir(st, dirname(dst)) THEN [exc |-> "ResourceNotFound", store |-> st]
    ELSE [exc |-> NoExc, store |-> relocate(st, src, dst)]

\* FS.move(src, dst), overwrite=False: [exc, store]
move(st, src, dst, impl) ==
    IF impl = "copy"
    THEN IF exists(st, dst) THEN [exc |-> "DestinationExists", store |-> st]
         ELSE IF ~exists(st, src) THEN [exc |-> "ResourceNotFound", store |-> st]
         ELSE IF isdir(st, src) THEN [exc |-> "FileExpected", store |-> st]
         ELSE IF ~isdir(st, dirname(dst)) THEN [exc |-> "ResourceNotFound", store |-> st]
         ELSE [exc |-> NoExc, store |-> relocate(st, src, dst)]
    ELSE IF ~exists(st, src) THEN [exc |-> "ResourceNotFound", store |-> st]
         ELSE IF isdir(st, src) THEN [exc |-> "FileExpected", store |-> st]
         ELSE IF ~isdir(st, dirname(dst)) THEN [exc |-> "ResourceNotFound", store |-> st]
         ELSE IF exists(st, dst) THEN [exc |-> "DestinationExists", store |-> st]
         ELSE [exc |-> NoExc, store |-> relocate(st, src, dst)]

\* the entry at src and everything below it, copied into what is at dst and
\* removed: the entries of dst that the copy does not write stay
relocate_into(st, src, dst) ==
    LET moved == {q \in DOMAIN st : isbase(src, q)}
        kept == DOMAIN st \ moved
        to(q) == dst \o SubSeq(q, Len(src) + 1, Len(q))
    IN [q \in kept \cup {to(m) : m \in moved} |->
           IF q \in {to(m) : m \in moved}
           THEN st[CHOOSE m \in moved : to(m) = q]
           ELSE st[q]]

\* an entry below src meets an entry of the other kind below dst
kinds_differ(st, src, dst) ==
    \E q \in DOMAIN st :
        /\ isbase(src, q)
        /\ exists(st, dst \o SubSeq(q, Len(src) + 1, Len(q)))
        /\ st[dst \o SubSeq(q, Len(src) + 1, Len(q))].is_dir # st[q].is_dir

\* FS.movedir(src, dst, create=True): [exc, store].  With dst below src the
\* copy never ends (the walk of src keeps finding the copy it is writing):
\* "NoReturn"; the relink hangs the directory below itself, off the tree.
\* With a directory at dst the copy writes into it and the relink puts the
\* source's entry in its place; with a file at dst the copy cannot make the
\* directory and the relink replaces the file.  Where the copy meets an
\* entry of the other kind below dst it fails part-way; these runs are not
\* followed ("NoReturn").
movedir(st, src, dst, impl) ==
    IF ~exists(st, src) THEN [exc |-> "ResourceNotFound", store |-> st]
    ELSE IF ~isdir(st, src) THEN [exc |-> "DirectoryExpected", store |-> st]
    ELSE IF ~isdir(st, dirname(dst)) THEN [exc |-> "ResourceNotFound", store |-> st]
    ELSE IF isbase(src, dst) /\ src # dst
    THEN IF impl = "copy" THEN [exc |-> "NoReturn", store |-> st]
         ELSE [exc |-> NoExc,
               store |-> without(st, {q \in DOMAIN st : isbase(src, q)})]
    ELSE IF src = dst THEN [exc |-> NoExc, store |-> st]
    ELSE IF impl = "copy"
    THEN IF isfile(st, dst) THEN [exc |-> "DirectoryExpected", store |-> st]
         ELSE IF kinds_differ(st, src, dst) THEN [exc |-> "NoReturn", store |-> st]
         ELSE [exc |-> NoExc, store |-> relocate_into(st, src, dst)]
    ELSE [exc |-> NoExc, store |-> relocate(st, src, dst)]

----------------------------------------------------------------------------
(* FsContentsManager.  An entry descriptor ("model") is a record; content  *)
(* and size are None or Some(value), the other fields strings.  Timestamps *)
(* and the constant writable flag are left out.                            *)

\* a faulty variant: a path above the root is not taken for a missing one
wrap_fs_errors_not_found_only(exc) ==
    IF exc = "ResourceNotFound" THEN "HTTP404"
    ELSE IF exc = "DestinationExists" THEN "HTTP409"
    ELSE IF exc = "ResourceReadOnly" THEN "HTTP409"
    ELSE exc

\* wrap_fs_errors: the exception the decorated method raises
wrap_fs_errors(exc) ==
    IF exc \in {"ResourceNotFound", "IllegalBackReference"} THEN "HTTP404"
    ELSE IF exc = "DestinationExists" THEN "HTTP409"
    ELSE IF exc = "ResourceReadOnly" THEN "HTTP409"
    ELSE exc

NoModel == [name |-> "", path |-> <<"">>, type |-> "None", size |-> None,
            format |-> "None", content |-> None, mimetype |-> "None"]

Raise(exc) == [exc |-> exc, model |-> NoModel]
Return(model) == [exc |-> NoExc, model |-> model]

\* a faulty variant: the path is dirname + '/' + name as it is
_base_model_unstripped(dir, name) ==
    [name |-> name[1], path |-> dir \o name, type |-> "None",
     size |-> Some(0), format |-> "None", content |-> None, mimetype |-> "None"]

\* _base_model
_base_model(dir, name) ==
    [name |-> name[1], path |-> strip_slash(dir \o name), type |-> "None",
     size |-> Some(0), format |-> "None", content |-> None, mimetype |-> "None"]

\* mimetypes.guess_type(path)[0]: by the extension of the name
guess_mimetype(path) == IF Last(path) = "t.txt" THEN "text/plain" ELSE "None"

\* dir_exists: [exc, value]
dir_exists(st, path) ==
    LET answer(v) ==
            IF v.exc # NoExc THEN [exc |-> wrap_fs_errors(v.exc), value |-> FALSE]
            ELSE [exc |-> NoExc, value |-> isdir(st, v.path)]
    IN answer(validatepath(path))

\* file_exists: [exc, value]
file_exists(st, path) ==
    LET answer(v) ==
            IF v.exc # NoExc THEN [exc |-> wrap_fs_errors(v.exc), value |-> FALSE]
            ELSE [exc |-> NoExc, value |-> isfile(st, v.path)]
    IN answer(validatepath(path))

\* str.startswith('.') on the names of the model
startswith_dot(name) == name \in {".h", ".ipynb_checkpoints", ".", ".."}

\* is_hidden: [exc, value]
is_hidden(st, path) ==
    LET answer(v) ==
            IF v.exc # NoExc THEN [exc |-> wrap_fs_errors(v.exc), value |-> FALSE]
            ELSE [exc |-> NoExc, value |-> startswith_dot(basename(v.path)[1])]
    IN answer(validatepath(path))

\* guess_type: [exc, type]
guess_type(st, path) ==
    IF endswith_ipynb(path) THEN [exc |-> NoExc, type |-> "notebook"]
    ELSE LET guessed(d) ==
                 IF d.exc # NoExc THEN [exc |-> d.exc, type |-> "None"]
                 ELSE [exc |-> NoExc, type |-> IF d.value THEN "directory" ELSE "file"]
         IN guessed(dir_exists(st, path))

\* a faulty variant: text is returned whenever the bytes decode, whatever
\* format was asked for
_read_file_text_first(st, path, format) ==
    LET read(r) ==
            IF r.exc # NoExc
            THEN [exc |-> wrap_fs_errors(r.exc), content |-> None, format |-> "None"]
            ELSE IF utf8_decode(r.bytes).ok
            THEN [exc |-> NoExc, content |-> Some(utf8_decode(r.bytes).text),
                  format |-> "text"]
            ELSE IF format = "text"
            THEN [exc |-> "HTTP400", content |-> None, format |-> "None"]
            ELSE [exc |-> NoExc, content |-> Some(b64encode(r.bytes)),
                  format |-> "base64"]
    IN read(openbin_read(st, path))

\* a faulty variant: no fallback to base64, bytes that are not UTF-8 are an
\* error unless base64 was asked for
_read_file_no_fallback(st, path, format) ==
    LET read(r) ==
            IF r.exc # NoExc
            THEN [exc |-> wrap_fs_errors(r.exc), content |-> None, format |-> "None"]
            ELSE IF format = "base64"
            THEN [exc |-> NoExc, content |-> Some(b64encode(r.bytes)),
                  format |-> "base64"]
            ELSE IF utf8_decode(r.bytes).ok
            THEN [exc |-> NoExc, content |-> Some(utf8_decode(r.bytes).text),
                  format |-> "text"]
            ELSE [exc |-> "HTTP400", content |-> None, format |-> "None"]
    IN read(openbin_read(st, path))

\* _read_file: [exc, content, format]
_read_file(st, path, format) ==
    LET decoded(bcontent, t) ==
            IF format \in {"None", "text"} /\ t.ok
            THEN [exc |-> NoExc, content |-> Some(t.text), format |-> "text"]
            ELSE IF format = "text"
            THEN [exc |-> "HTTP400", content |-> None, format |-> "None"]
            ELSE [exc |-> NoExc, content |-> Some(b64encode(bcontent)),
                  format |-> "base64"]
        read(r) ==
            IF r.exc # NoExc
            THEN [exc |-> wrap_fs_errors(r.exc), content |-> None, format |-> "None"]
            ELSE decoded(r.bytes, utf8_decode(r.bytes))
    IN read(openbin_read(st, path))

\* _file_model, for a validated path and its details f
_file_model(st, path, f, content, format) ==
    LET filled(m, r) ==
            IF r.exc # NoExc THEN Raise(r.exc)
            ELSE Return([m EXCEPT !.content = r.content, !.format = r.format,
                                  !.mimetype = guess_mimetype(m.path)])
        model(m) ==
            IF ~content THEN Return(m) ELSE filled(m, _read_file(st, path, format))
    IN model([_base_model(split(path)[1], split(path)[2]) EXCEPT
                  !.type = guess_type(st, path).type, !.size = Some(f.size)])

\* a faulty variant: the type asked for does not replace the guessed one
_get_file_guessed(st, path, content, format, type) ==
    LET typed(r) ==
            IF r.exc # NoExc THEN Raise(wrap_fs_errors(r.exc)) ELSE r
        found(p, f) ==
            IF f.exc # NoExc THEN Raise(wrap_fs_errors(f.exc))
            ELSE IF ~f.is_file THEN Raise("HTTP404")
            ELSE typed(_file_model(st, p, f, content, format))
        checked(v) ==
            IF v.exc # NoExc THEN Raise(wrap_fs_errors(v.exc))
            ELSE found(v.path, getdetails(st, v.path))
    IN checked(validatepath(path))

\* _get_file; type "None" is the default type=None
_get_file(st, path, content, format, type) ==
    LET typed(r) ==
            IF r.exc # NoExc THEN Raise(wrap_fs_errors(r.exc))
            ELSE IF type # "None" THEN Return([r.model EXCEPT !.type = type])
            ELSE r
        found(p, f) ==
            IF f.exc # NoExc THEN Raise(wrap_fs_errors(f.exc))
            ELSE IF ~f.is_file THEN Raise("HTTP404")
            ELSE typed(_file_model(st, p, f, content, format))
        checked(v) ==
            IF v.exc # NoExc THEN Raise(wrap_fs_errors(v.exc))
            ELSE found(v.path, getdetails(st, v.path))
    IN checked(validatepath(path))

\* _get_directory without content, as it is called for a child and by
\* _save_directory
directory_model(st, path) ==
    LET found(p, d) ==
            IF d.exc # NoExc THEN Raise(wrap_fs_errors(d.exc))
            ELSE IF ~d.is_dir THEN Raise("HTTP404")
            ELSE Return([_base_model(split(p)[1], split(p)[2]) EXCEPT
                             !.type = "directory", !.size = None])
        checked(v) ==
            IF v.exc # NoExc THEN Raise(wrap_fs_errors(v.exc))
            ELSE found(v.path, getdetails(st, v.path))
    IN checked(validatepath(path))

\* _get_directory; the listing is the set of the children's descriptors
\* (its order is the backend's)
_get_directory(st, path, content, format) ==
    LET child(child_path) ==
            IF isdir(st, child_path) THEN directory_model(st, child_path).model
            ELSE _get_file(st, child_path, FALSE, format, "None").model
        listed(r, p) ==
            IF r.exc # NoExc \/ ~content THEN r
            ELSE Return([r.model EXCEPT
                            !.content = Some({child(join(p, <<name>>)) :
                                                 name \in scandir(st, p)}),
                            !.format = "json"])
    IN listed(directory_model(st, path), validatepath(path).path)

\* nbformat.reads: whether the external notebook codec parses the text.  The
\* model takes the texts that begin with "A" for notebook documents; base64
\* text never is one.
nbformat_reads_ok(content, format) ==
    format = "text" /\ content # None /\ content[1] # <<>> /\ content[1][1] = 65

\* _get_notebook (trust marking and validation are the codec's)
_get_notebook(st, path, content, format) ==
    LET parsed(m) ==
            IF ~content THEN Return(m)
            ELSE IF ~nbformat_reads_ok(m.content, m.format) THEN Raise("NotJSONError")
            ELSE Return([m EXCEPT !.content = Some(<<"nb", m.content[1]>>),
                                  !.format = "json"])
        read(r) ==
            IF r.exc # NoExc THEN Raise(wrap_fs_errors(r.exc))
            ELSE parsed([r.model EXCEPT !.type = "notebook"])
        checked(v) ==
            IF v.exc # NoExc THEN Raise(wrap_fs_errors(v.exc))
            ELSE read(_get_file(st, v.path, content, format, "None"))
    IN checked(validatepath(path))

Types == {"file", "directory", "notebook"}
Formats == {"text", "base64"}

\* get: [exc, model]
get(st, path, content, type, format) ==
    LET dispatch(t) ==
            IF t = "notebook" THEN _get_notebook(st, path, content, format)
            ELSE IF t = "directory" THEN _get_directory(st, path, content, format)
            ELSE IF t = "file" THEN _get_file(st, path, content, format, t)
            ELSE Raise("ValueError")
        guessed(g) == IF g.exc # NoExc THEN Raise(g.exc) ELSE dispatch(g.type)
    IN IF type = "None" THEN guessed(guess_type(st, path)) ELSE dispatch(type)

\* A descriptor given to save: [type, has_content, content, format]; content
\* is a string (code points) and format "None" when the key is absent.
\* Results of the writing methods: [exc, model, store].

Fail(exc, st) == [exc |-> exc, model |-> NoModel, store |-> st]

\* a faulty variant: the file is opened for writing before the format is
\* looked at
_save_file_open_first(st, path, model) ==
    LET answered(w, r) ==
            [exc |-> wrap_fs_errors(r.exc), model |-> r.model, store |-> w.store]
        written(w) ==
            IF w.exc # NoExc THEN Fail(wrap_fs_errors(w.exc), st)
            ELSE answered(w, _get_file(w.store, path, FALSE, "None", "None"))
        decoded(d) ==
            IF ~d.ok THEN Fail("HTTP400", st)
            ELSE written(openbin_write(st, path, d.bytes))
        opened(w) == Fail("HTTP400", w.store)
    IN
    IF ~model.has_content THEN Fail("HTTP400", st)
    ELSE IF model.format \notin {"text", "base64"}
    THEN opened(openbin_write(st, path, <<>>))
    ELSE decoded(IF model.format = "text"
                 THEN [ok |-> TRUE, bytes |-> utf8_encode(model.content)]
                 ELSE b64decode(model.content))

\* _save_file
_save_file(st, path, model) ==
    LET answered(w, r) ==
            [exc |-> wrap_fs_errors(r.exc), model |-> r.model, store |-> w.store]
        written(w) ==
            IF w.exc # NoExc THEN Fail(wrap_fs_errors(w.exc), st)
            ELSE answered(w, _get_file(w.store, path, FALSE, "None", "None"))
        decoded(d) ==
            IF ~d.ok THEN Fail("HTTP400", st)
            ELSE written(openbin_write(st, path, d.bytes))
    IN
    IF ~model.has_content THEN Fail("HTTP400", st)
    ELSE IF model.format \notin {"text", "base64"} THEN Fail("HTTP400", st)
    ELSE decoded(IF model.format = "text"
                 THEN [ok |-> TRUE, bytes |-> utf8_encode(model.content)]
                 ELSE b64decode(model.content))

\* the steps of _save_file, for the executions in which other requests run
\* between them.  The first is _save_file up to the end of the with block
\* that writes the bytes: [exc, model, store]
_save_file_write(st, path, model) ==
    LET written(w) ==
            IF w.exc # NoExc THEN Fail(wrap_fs_errors(w.exc), st)
            ELSE [exc |-> NoExc, model |-> NoModel, store |-> w.store]
        decoded(d) ==
            IF ~d.ok THEN Fail("HTTP400", st)
            ELSE written(openbin_write(st, path, d.bytes))
    IN
    IF ~model.has_content THEN Fail("HTTP400", st)
    ELSE IF model.format \notin {"text", "base64"} THEN Fail("HTTP400", st)
    ELSE decoded(IF model.format = "text"
                 THEN [ok |-> TRUE, bytes |-> utf8_encode(model.content)]
                 ELSE b64decode(model.content))

\* a faulty variant: the re-read is made with the content
_save_file_reread_content(st, path) ==
    LET answered(r) == [exc |-> wrap_fs_errors(r.exc), model |-> r.model]
    IN answered(_get_file(st, path, TRUE, "None", "None"))

\* the second step, return self._get_file(path, False, None): [exc, model]
_save_file_reread(st, path) ==
    LET answered(r) == [exc |-> wrap_fs_errors(r.exc), model |-> r.model]
    IN answered(_get_file(st, path, FALSE, "None", "None"))

\* _save_directory
_save_directory(st, path) ==
    LET answered(w, r) ==
            [exc |-> wrap_fs_errors(r.exc), model |-> r.model, store |-> w.store]
        made(w) ==
            IF w.exc # NoExc THEN Fail(wrap_fs_errors(w.exc), st)
            ELSE answered(w, _get_directory(w.store, path, FALSE, "None"))
    IN made(makedir(st, path))

\* nbformat.writes: the text of a notebook document.  A document is
\* <<"nb", text>>, what _get_notebook returns for the text it parsed.
nbformat_writes(nb) == nb[2]

\* _save_notebook (signing is the codec's); model['content'] of a descriptor
\* without content is a KeyError
_save_notebook(st, path, model) ==
    IF ~model.has_content THEN Fail("KeyError", st)
    ELSE _save_file(st, path, [model EXCEPT !.content = nbformat_writes(model.content),
                                            !.format = "text"])

\* The pre-save hook is the configured collaborator's: "unset" (none is
\* configured, nothing is called), "returns", or it fails, and then
\* run_pre_save_hook of the notebook framework either lets the exception
\* through ("raises") or logs it and returns ("logged").
Hooks == {"unset", "returns", "raises", "logged"}

\* run_pre_save_hook: the exception it raises
run_pre_save_hook(hook) == IF hook = "raises" THEN "HookError" ELSE NoExc

\* how many times save calls the hook: model['type'] in the first statement
\* of save is a KeyError for a descriptor without the key, before the hook
pre_save_hook_calls(model, hook) ==
    IF model.type = "Missing" THEN 0
    ELSE IF hook = "unset" THEN 0
    ELSE 1

\* save.  The type of a descriptor is "Missing" without the key 'type' and
\* "None" with a None or empty one.
save(st, model, path, hook) ==
    IF model.type = "Missing" THEN Fail("KeyError", st)
    ELSE IF run_pre_save_hook(hook) # NoExc THEN Fail(run_pre_save_hook(hook), st)
    ELSE IF model.type = "None" THEN Fail("HTTP400", st)
    ELSE IF model.type = "notebook" THEN _save_notebook(st, path, model)
    ELSE IF model.type = "directory" THEN _save_directory(st, path)
    ELSE IF model.type = "file" THEN _save_file(st, path, model)
    ELSE Fail("ValueError", st)

\* The calls of a request to the codec (nbformat) and to the trust store
\* (check_and_sign, mark_trusted_cells, validate_notebook_model), in the
\* order they are made, with "write" for the backend write of the bytes.

\* _get_notebook with its keyword trust
_get_notebook_calls(st, path, content, format, trust) ==
    LET parsed(m) ==
            IF ~content THEN <<>>
            ELSE IF ~nbformat_reads_ok(m.content, m.format) THEN <<"reads">>
            ELSE <<"reads">>
                 \o (IF trust THEN <<"mark_trusted_cells">> ELSE <<>>)
                 \o (IF trust THEN <<"validate_notebook_model">> ELSE <<>>)
        read(r) == IF r.exc # NoExc THEN <<>> ELSE parsed(r.model)
        checked(v) ==
            IF v.exc # NoExc THEN <<>>
            ELSE read(_get_file(st, v.path, content, format, "None"))
    IN checked(validatepath(path))

\* get: fn(path=path, content=content, format=format, type=type), trust is
\* its default
get_calls(st, path, content, type, format) ==
    LET dispatch(t) ==
            IF t = "notebook" THEN _get_notebook_calls(st, path, content, format, TRUE)
            ELSE <<>>
        guessed(g) == IF g.exc # NoExc THEN <<>> ELSE dispatch(g.type)
    IN IF type = "None" THEN guessed(guess_type(st, path)) ELSE dispatch(type)

\* _save_notebook with its parameter sign
_save_notebook_calls(st, path, model, sign) ==
    LET written(w) == IF w.exc = NoExc THEN <<"write">> ELSE <<>>
    IN
    IF ~model.has_content THEN <<>>
    ELSE <<"from_dict">>
         \o (IF sign THEN <<"check_and_sign">> ELSE <<>>)
         \o <<"writes">>
         \o written(_save_file_write(st, path,
                        [model EXCEPT !.content = nbformat_writes(model.content),
                                      !.format = "text"]))

\* save: fn(path, model), sign is its default
save_calls(st, model, path, hook) ==
    LET written(w) == IF w.exc = NoExc THEN <<"write">> ELSE <<>>
    IN
    IF model.type = "Missing" THEN <<>>
    ELSE IF run_pre_save_hook(hook) # NoExc THEN <<>>
    ELSE IF model.type = "notebook" THEN _save_notebook_calls(st, path, model, TRUE)
    ELSE IF model.type = "file" THEN written(_save_file_write(st, path, model))
    ELSE <<>>

\* delete_file
delete_file(st, path) ==
    LET removed(r) ==
            [exc |-> wrap_fs_errors(r.exc), model |-> NoModel, store |-> r.store]
        checked(v) ==
            IF v.exc # NoExc THEN Fail(wrap_fs_errors(v.exc), st)
            ELSE removed(IF isfile(st, v.path) THEN remove(st, v.path)
                         ELSE IF isdir(st, v.path) THEN removedir(st, v.path)
                         ELSE [exc |-> "ResourceNotFound", store |-> st])
    IN checked(validatepath(path))

\* a faulty variant: the root is not refused as the source
rename_file_unguarded(st, old_path, new_path, impl) ==
    LET moved(r) ==
            [exc |-> wrap_fs_errors(r.exc), model |-> NoModel, store |-> r.store]
        checked(o, n) ==
            IF o.exc # NoExc THEN Fail(wrap_fs_errors(o.exc), st)
            ELSE IF n.exc # NoExc THEN Fail(wrap_fs_errors(n.exc), st)
            ELSE moved(IF isdir(st, o.path)
                       THEN IF exists(st, n.path)
                            THEN [exc |-> "DestinationExists", store |-> st]
                            ELSE movedir(st, o.path, n.path, impl)
                       ELSE move(st, o.path, n.path, impl))
    IN checked(validatepath(old_path), validatepath(new_path))

\* rename_file
rename_file(st, old_path, new_path, impl) ==
    LET moved(r) ==
            [exc |-> wrap_fs_errors(r.exc), model |-> NoModel, store |-> r.store]
        checked(o, n) ==
            IF o.exc # NoExc THEN Fail(wrap_fs_errors(o.exc), st)
            ELSE IF n.exc # NoExc THEN Fail(wrap_fs_errors(n.exc), st)
            ELSE IF o.path = Root THEN Fail("HTTP409", st)
            ELSE moved(IF isdir(st, o.path)
                       THEN IF exists(st, n.path)
                            THEN [exc |-> "DestinationExists", store |-> st]
                            ELSE movedir(st, o.path, n.path, impl)
                       ELSE move(st, o.path, n.path, impl))
    IN checked(validatepath(old_path), validatepath(new_path))

\* rename_file in its two steps.  The first, up to the test of the target:
\* [exc, old, new, is_dir], the validated paths and the kind found at old
rename_file_check(st, old_path, new_path) ==
    LET refused(exc) == [exc |-> exc, old |-> Root, new |-> Root, is_dir |-> FALSE]
        checked(o, n) ==
            IF o.exc # NoExc THEN refused(wrap_fs_errors(o.exc))
            ELSE IF n.exc # NoExc THEN refused(wrap_fs_errors(n.exc))
            ELSE IF o.path = Root THEN refused("HTTP409")
            ELSE IF isdir(st, o.path) /\ exists(st, n.path)
            THEN refused(wrap_fs_errors("DestinationExists"))
            ELSE [exc |-> NoExc, old |-> o.path, new |-> n.path,
                  is_dir |-> isdir(st, o.path)]
    IN checked(validatepath(old_path), validatepath(new_path))

\* a faulty variant: the move looks at the target again
rename_file_move_guarded(st, old, new, is_dir, impl) ==
    LET moved(r) == [exc |-> wrap_fs_errors(r.exc), store |-> r.store]
    IN moved(IF is_dir
             THEN IF exists(st, new)
                  THEN [exc |-> "DestinationExists", store |-> st]
                  ELSE movedir(st, old, new, impl)
             ELSE move(st, old, new, impl))

\* the second step, the backend's move: [exc, store]
rename_file_move(st, old, new, is_dir, impl) ==
    LET moved(r) == [exc |-> wrap_fs_errors(r.exc), store |-> r.store]
    IN moved(IF is_dir THEN movedir(st, old, new, impl)
             ELSE move(st, old, new, impl))

----------------------------------------------------------------------------
(* FsManagerMixin of jupyter_pyfilesystem_contents, the second variant of  *)
(* the manager over the same backend.                                      *)

\* _normalise_path: '/' + p.strip('/')
_normalise_path(p) == <<"">> \o strip_slash(p)

\* _base_model of the variant: the path is dirname + '/' + name as it is
mixin_base_model(dir, name) ==
    [name |-> name[1], path |-> dir \o name, type |-> "None",
     size |-> Some(0), format |-> "None", content |-> None, mimetype |-> "None"]

\* self.fs.getdetails(path) on a path the variant has not validated: the
\* backend validates it
mixin_getdetails(st, path) ==
    LET found(v) ==
            IF v.exc # NoExc
            THEN [exc |-> v.exc, is_dir |-> FALSE, is_file |-> FALSE, size |-> 0]
            ELSE getdetails(st, v.path)
    IN found(validatepath(path))

\* FsManagerMixin._read_file: [exc, content, format]
mixin_read_file(st, path, format) ==
    LET decoded(bcontent, t) ==
            IF format \in {"None", "text"} /\ t.ok
            THEN [exc |-> NoExc, content |-> Some(t.text), format |-> "text"]
            ELSE IF format = "text"
            THEN [exc |-> "HTTP400", content |-> None, format |-> "None"]
            ELSE [exc |-> NoExc, content |-> Some(b64encode(bcontent)),
                  format |-> "base64"]
        read(r) ==
            IF r.exc # NoExc
            THEN [exc |-> r.exc, content |-> None, format |-> "None"]
            ELSE decoded(r.bytes, utf8_decode(r.bytes))
    IN read(openbin_read(st, path))

\* FsManagerMixin._file_model
mixin_file_model(st, path, f, content, format) ==
    LET filled(m, r) ==
            IF r.exc # NoExc THEN Raise(r.exc)
            ELSE Return([m EXCEPT !.content = r.content, !.format = r.format,
                                  !.mimetype = guess_mimetype(m.path)])
        model(m) ==
            IF ~content THEN Return(m)
            ELSE filled(m, mixin_read_file(st, path, format))
    IN model([mixin_base_model(split(path)[1], split(path)[2]) EXCEPT
                  !.type = "file", !.size = Some(f.size)])

\* FsManagerMixin._get_file
mixin_get_file(st, path, content, format) ==
    LET found(f) ==
            IF f.exc = "ResourceNotFound" THEN Raise("HTTP404")
            ELSE IF f.exc # NoExc THEN Raise(f.exc)
            ELSE IF ~f.is_file THEN Raise("HTTP404")
            ELSE mixin_file_model(st, path, f, content, format)
    IN found(mixin_getdetails(st, path))

\* FsManagerMixin._get_directory without content
mixin_directory_model(st, path) ==
    LET found(d) ==
            IF d.exc = "ResourceNotFound" THEN Raise("HTTP404")
            ELSE IF d.exc # NoExc THEN Raise(d.exc)
            ELSE IF ~d.is_dir THEN Raise("HTTP404")
            ELSE Return([mixin_base_model(split(path)[1], split(path)[2]) EXCEPT
                             !.type = "directory", !.size = None])
    IN found(mixin_getdetails(st, path))

\* FsManagerMixin._get_directory: a child that is a file is read with the
\* content and the format of the listing's caller, and what its read raises
\* ends the listing
mixin_get_directory(st, path, content, format) ==
    LET child(child_path) ==
            IF isdir(st, child_path) THEN mixin_directory_model(st, child_path)
            ELSE mixin_get_file(st, child_path, content, format)
        filled(r, children) ==
            IF \E c \in children : c.exc # NoExc
            THEN Raise((CHOOSE c \in children : c.exc # NoExc).exc)
            ELSE Return([r.model EXCEPT
                            !.content = Some({c.model : c \in children}),
                            !.format = "json"])
        listed(r, p) ==
            IF r.exc # NoExc \/ ~content THEN r
            ELSE filled(r, {child(join(p, <<name>>)) : name \in scandir(st, p)})
    IN listed(mixin_directory_model(st, path), validatepath(path).path)

\* FsManagerMixin.dir_exists: [exc, value]
mixin_dir_exists(st, path) ==
    LET answer(d) ==
            IF d.exc = "ResourceNotFound" THEN [exc |-> NoExc, value |-> FALSE]
            ELSE [exc |-> d.exc, value |-> d.is_dir]
    IN answer(mixin_getdetails(st, _normalise_path(path)))

\* FsManagerMixin.get for the default type and the types file and directory
mixin_get(st, path, content, type, format) ==
    LET dispatch(p, t) ==
            IF t = "directory" THEN mixin_get_directory(st, p, content, format)
            ELSE IF t = "file" THEN mixin_get_file(st, p, content, format)
            ELSE Raise("ValueError")
        guessed(p, d) ==
            IF d.exc # NoExc THEN Raise(d.exc)
            ELSE dispatch(p, IF d.value THEN "directory" ELSE "file")
    IN IF type = "None"
       THEN guessed(_normalise_path(path), mixin_dir_exists(st, _normalise_path(path)))
       ELSE dispatch(_normalise_path(path), type)

\* FsManagerMixin.is_hidden: [exc, value]
mixin_is_hidden(st, path) ==
    LET answer(p) == [exc |-> NoExc, value |-> FALSE]
    IN answer(_normalise_path(path))

\* FsManagerMixin.delete_file: the manager has no attribute sf, so the
\* call of self.sf.remove raises before the backend is reached
mixin_delete_file(st, path) ==
    LET removed(p) == Fail("AttributeError", st)
    IN removed(_normalise_path(path))

----------------------------------------------------------------------------
(* OmeroManagerMixin of jupyter_omero_contents, the variant over an OMERO  *)
(* server: the descriptors of its directories, the root and /jupyter,      *)
(* which it builds without a call to the server when no content is asked   *)
(* for.                                                                    *)

\* _normalise_path of the variant: a '/' is put before a path that has none
omero_normalise_path(p) == IF startswith_slash(p) THEN p ELSE <<"">> \o p

\* _base_model of the variant
omero_base_model(dir, name) ==
    [name |-> name[1], path |-> dir \o name, type |-> "None",
     size |-> Some(0), format |-> "None", content |-> None, mimetype |-> "None"]

\* OmeroManagerMixin._get_root without content
omero_get_root ==
    Return([omero_base_model(<<"">>, <<"">>) EXCEPT
                !.type = "directory", !.size = None, !.format = "json"])

\* OmeroManagerMixin._get_directory without content; path.rsplit('/', 1) is
\* the path before its last '/' and the name after it
omero_get_directory(path) ==
    IF path = Root THEN omero_get_root
    ELSE IF strip_slash(path) # <<"jupyter">> THEN Raise("HTTP404")
    ELSE Return([omero_base_model(Front(path), <<Last(path)>>) EXCEPT
                     !.type = "directory", !.size = None, !.format = "json"])

\* OmeroManagerMixin.get(path, content=False, type='directory')
omero_get(path) == omero_get_directory(omero_normalise_path(path))

\* The server's OriginalFiles of the path '/jupyter' are the entries
\* <<"", "jupyter", name>> of the store; the directory itself is no entry.
omero_dir == <<"", "jupyter">>

\* _get_omero_file: the file named by a normalised path is on the server
omero_file_found(st, path) ==
    /\ Len(path) >= 2
    /\ SubSeq(path, 1, Len(path) - 1) = omero_dir
    /\ path \in DOMAIN st

\* OmeroManagerMixin.file_exists
omero_file_exists(st, path) == omero_file_found(st, omero_normalise_path(path))

\* OmeroManagerMixin._save_file on a normalised path: [exc, model, store].
\* The OriginalFile is looked up, and made with saveAndReturnObject where
\* there is none, before the content is encoded.
omero_save_file(st, path, model) ==
    LET written(made, d) ==
            IF ~d.ok THEN Fail("HTTP400", made)
            ELSE [exc |-> NoExc, model |-> NoModel,
                  store |-> [made EXCEPT ![path] = FileEntry(d.bytes)]]
        encoded(made) ==
            written(made, IF model.format = "text"
                          THEN [ok |-> TRUE, bytes |-> utf8_encode(model.content)]
                          ELSE b64decode(model.content))
    IN
    IF ~model.has_content THEN Fail("HTTP400", st)
    ELSE IF model.format \notin {"text", "base64"} THEN Fail("HTTP400", st)
    ELSE IF SubSeq(path, 1, Len(path) - 1) # omero_dir THEN Fail("HTTP400", st)
    ELSE encoded(IF omero_file_found(st, path) THEN st
                 ELSE (path :> FileEntry(<<>>)) @@ st)

\* OmeroManagerMixin.save
omero_save(st, model, path, hook) ==
    IF run_pre_save_hook(hook) # NoExc THEN Fail(run_pre_save_hook(hook), st)
    ELSE IF model.type \in {"Missing", "None"} THEN Fail("HTTP400", st)
    ELSE IF model.type = "directory" THEN Fail("HTTP400", st)
    ELSE IF model.type = "notebook"
    THEN IF ~model.has_content THEN Fail("KeyError", st)
         ELSE omero_save_file(st, omero_normalise_path(path),
                              [model EXCEPT !.content = nbformat_writes(model.content),
                                            !.format = "text"])
    ELSE IF model.type = "file"
    THEN omero_save_file(st, omero_normalise_path(path), model)
    ELSE Fail("ValueError", st)

----------------------------------------------------------------------------
(* FsCheckpoints: one checkpoint per document, kept in a file of the       *)
(* directory checkpoint_dir next to the document.  The calls return        *)
(* [exc, model, store, records]; _checkpoint_path runs outside             *)
(* wrap_fs_errors, so what validatepath raises there comes out as it is.   *)

checkpoint_dir == ".ipynb_checkpoints"

\* fspath.splitext on the names of the model: <<basename, ext>>
splitext(name) ==
    CASE name = "a" -> <<"a", "">>
      [] name = "n.ipynb" -> <<"n", ".ipynb">>
      [] name = "" -> <<"", "">>

\* str(checkpoint_id)
str(id) == CASE id = 0 -> "0" [] id = 1 -> "1"

\* checkpoint_template.format(basename=, id=, ext=):
\* '{basename}-checkpoint{id}{ext}'
checkpoint_template(stem, id, ext) ==
    CASE <<stem, ext>> = <<"a", "">> ->
             (IF str(id) = "0" THEN "a-checkpoint0" ELSE "a-checkpoint1")
      [] <<stem, ext>> = <<"n", ".ipynb">> ->
             (IF str(id) = "0" THEN "n-checkpoint0.ipynb" ELSE "n-checkpoint1.ipynb")
      [] <<stem, ext>> = <<"", "">> ->
             (IF str(id) = "0" THEN "-checkpoint0" ELSE "-checkpoint1")

\* a faulty variant: the checkpoint is kept at the path of the document
_checkpoint_path_in_place(checkpoint_id, path) == validatepath(path)

\* _checkpoint_path: [exc, path]
_checkpoint_path(checkpoint_id, path) ==
    LET named(parent, parts) ==
            join(join(parent, <<checkpoint_dir>>),
                 <<checkpoint_template(parts[1], checkpoint_id, parts[2])>>)
        derived(v) ==
            IF v.exc # NoExc THEN v
            ELSE [exc |-> NoExc,
                  path |-> named(split(v.path)[1], splitext(split(v.path)[2][1]))]
    IN derived(validatepath(path))

\* _checkpoint_model: the record of a checkpoint (its time is left out)
_checkpoint_model(checkpoint_id) == [id |-> str(checkpoint_id)]

CpResult(exc, st, records) ==
    [exc |-> exc, model |-> NoModel, store |-> st, records |-> records]

\* _ensure_checkpoint_dir: [exc, model, store]
_ensure_checkpoint_dir(st, cp_path) ==
    LET ensured(d) ==
            IF d.exc # NoExc THEN Fail(d.exc, st)
            ELSE IF d.value THEN Fail(NoExc, st)
            ELSE _save_directory(st, dirname(cp_path))
    IN ensured(dir_exists(st, dirname(cp_path)))

\* the descriptor create_file_checkpoint builds: _base_model with the
\* content and the format set
checkpoint_file_model(content, format) ==
    [type |-> "None", has_content |-> TRUE, content |-> content, format |-> format]

\* a faulty variant: a checkpoint that exists is kept as it is
create_file_checkpoint_once(st, content, format, path) ==
    LET saved(e, f) ==
            IF f.exc # NoExc THEN CpResult(f.exc, e.store, <<>>)
            ELSE CpResult(NoExc, f.store, <<_checkpoint_model(0)>>)
        ensured(cp_path, e) ==
            IF e.exc # NoExc THEN CpResult(e.exc, e.store, <<>>)
            ELSE IF isfile(e.store, cp_path)
            THEN CpResult(NoExc, e.store, <<_checkpoint_model(0)>>)
            ELSE saved(e, _save_file(e.store, cp_path,
                                     checkpoint_file_model(content, format)))
        derived(cp) ==
            IF cp.exc # NoExc THEN CpResult(cp.exc, st, <<>>)
            ELSE ensured(cp.path, _ensure_checkpoint_dir(st, cp.path))
    IN derived(_checkpoint_path(0, path))

\* create_file_checkpoint
create_file_checkpoint(st, content, format, path) ==
    LET saved(e, f) ==
            IF f.exc # NoExc THEN CpResult(f.exc, e.store, <<>>)
            ELSE CpResult(NoExc, f.store, <<_checkpoint_model(0)>>)
        ensured(cp_path, e) ==
            IF e.exc # NoExc THEN CpResult(e.exc, e.store, <<>>)
            ELSE saved(e, _save_file(e.store, cp_path,
                                     checkpoint_file_model(content, format)))
        derived(cp) ==
            IF cp.exc # NoExc THEN CpResult(cp.exc, st, <<>>)
            ELSE ensured(cp.path, _ensure_checkpoint_dir(st, cp.path))
    IN derived(_checkpoint_path(0, path))

\* create_notebook_checkpoint (saved unsigned)
create_notebook_checkpoint(st, nb, path) ==
    LET saved(e, f) ==
            IF f.exc # NoExc THEN CpResult(f.exc, e.store, <<>>)
            ELSE CpResult(NoExc, f.store, <<_checkpoint_model(0)>>)
        ensured(cp_path, e) ==
            IF e.exc # NoExc THEN CpResult(e.exc, e.store, <<>>)
            ELSE saved(e, _save_notebook(e.store, cp_path,
                                         checkpoint_file_model(nb, "None")))
        derived(cp) ==
            IF cp.exc # NoExc THEN CpResult(cp.exc, st, <<>>)
            ELSE ensured(cp.path, _ensure_checkpoint_dir(st, cp.path))
    IN derived(_checkpoint_path(0, path))

\* get_file_checkpoint: [exc, model]
get_file_checkpoint(st, checkpoint_id, path) ==
    LET derived(cp) ==
            IF cp.exc # NoExc THEN Raise(cp.exc)
            ELSE _get_file(st, cp.path, TRUE, "None", "None")
    IN derived(_checkpoint_path(checkpoint_id, path))

\* get_notebook_checkpoint: [exc, model]
get_notebook_checkpoint(st, checkpoint_id, path) ==
    LET derived(cp) ==
            IF cp.exc # NoExc THEN Raise(cp.exc)
            ELSE _get_notebook(st, cp.path, TRUE, "text")
    IN derived(_checkpoint_path(checkpoint_id, path))

\* a faulty variant: the checkpoint is saved as a document is, signed
create_notebook_checkpoint_signing(st, nb, path) ==
    LET ensured(cp_path, e) ==
            IF e.exc # NoExc THEN <<>>
            ELSE _save_notebook_calls(e.store, cp_path,
                                      checkpoint_file_model(nb, "None"), TRUE)
        derived(cp) ==
            IF cp.exc # NoExc THEN <<>>
            ELSE ensured(cp.path, _ensure_checkpoint_dir(st, cp.path))
    IN derived(_checkpoint_path(0, path))

\* the calls of create_notebook_checkpoint:
\* self.parent._save_notebook(cp_path, model, False)
create_notebook_checkpoint_calls(st, nb, path) ==
    LET ensured(cp_path, e) ==
            IF e.exc # NoExc THEN <<>>
            ELSE _save_notebook_calls(e.store, cp_path,
                                      checkpoint_file_model(nb, "None"), FALSE)
        derived(cp) ==
            IF cp.exc # NoExc THEN <<>>
            ELSE ensured(cp.path, _ensure_checkpoint_dir(st, cp.path))
    IN derived(_checkpoint_path(0, path))

\* the calls of get_notebook_checkpoint:
\* self.parent._get_notebook(cp_path, True, 'text', trust=False)
get_notebook_checkpoint_calls(st, checkpoint_id, path) ==
    LET derived(cp) ==
            IF cp.exc # NoExc THEN <<>>
            ELSE _get_notebook_calls(st, cp.path, TRUE, "text", FALSE)
    IN derived(_checkpoint_path(checkpoint_id, path))

\* a faulty variant: the one checkpoint is deleted whatever the id
delete_checkpoint_any_id(st, checkpoint_id, path) ==
    LET deleted(d) == CpResult(d.exc, d.store, <<>>)
        derived(cp) ==
            IF cp.exc # NoExc THEN CpResult(cp.exc, st, <<>>)
            ELSE deleted(delete_file(st, cp.path))
    IN derived(_checkpoint_path(0, path))

\* delete_checkpoint
delete_checkpoint(st, checkpoint_id, path) ==
    LET deleted(d) == CpResult(d.exc, d.store, <<>>)
        derived(cp) ==
            IF cp.exc # NoExc THEN CpResult(cp.exc, st, <<>>)
            ELSE deleted(delete_file(st, cp.path))
    IN derived(_checkpoint_path(checkpoint_id, path))

\* list_checkpoints
list_checkpoints(st, path) ==
    LET read(f) ==
            IF f.exc # NoExc THEN CpResult(f.exc, st, <<>>)
            ELSE CpResult(NoExc, st, <<_checkpoint_model(0)>>)
        listed(cp_path, e) ==
            IF e.exc # NoExc THEN CpResult(e.exc, st, <<>>)
            ELSE IF e.value THEN read(_get_file(st, cp_path, FALSE, "None", "None"))
            ELSE CpResult(NoExc, st, <<>>)
        derived(cp) ==
            IF cp.exc # NoExc THEN CpResult(cp.exc, st, <<>>)
            ELSE listed(cp.path, file_exists(st, cp.path))
    IN derived(_checkpoint_path(0, path))

\* a faulty variant: the target's checkpoint directory is not seen to
rename_checkpoint_no_ensure(st, checkpoint_id, old_path, new_path, impl) ==
    LET renamed(r) == CpResult(r.exc, r.store, <<>>)
        derived(o, n) ==
            IF o.exc # NoExc THEN CpResult(o.exc, st, <<>>)
            ELSE IF n.exc # NoExc THEN CpResult(n.exc, st, <<>>)
            ELSE renamed(rename_file(st, o.path, n.path, impl))
    IN derived(_checkpoint_path(checkpoint_id, old_path),
               _checkpoint_path(checkpoint_id, new_path))

\* rename_checkpoint
rename_checkpoint(st, checkpoint_id, old_path, new_path, impl) ==
    LET renamed(r) == CpResult(r.exc, r.store, <<>>)
        ensured(cp_path_old, cp_path_new, e) ==
            IF e.exc # NoExc THEN CpResult(e.exc, e.store, <<>>)
            ELSE renamed(rename_file(e.store, cp_path_old, cp_path_new, impl))
        derived(o, n) ==
            IF o.exc # NoExc THEN CpResult(o.exc, st, <<>>)
            ELSE IF n.exc # NoExc THEN CpResult(n.exc, st, <<>>)
            ELSE ensured(o.path, n.path, _ensure_checkpoint_dir(st, n.path))
    IN derived(_checkpoint_path(checkpoint_id, old_path),
               _checkpoint_path(checkpoint_id, new_path))

----------------------------------------------------------------------------
(* The state machine.  store is the backend's content.  Requests are       *)
(* served one at a time: last is the request being answered with its       *)
(* outcome, prev the store as the request found it; Deliver hands the      *)
(* answer to the client and the next request can be taken.                 *)

NoGiven == [type |-> "None", has_content |-> FALSE, content |-> <<>>, format |-> "None"]

\* id is the checkpoint id of a checkpoint request, hook the pre-save hook
\* of a save and hook_calls the calls made to it, value the answer of a
\* predicate, records the checkpoint records returned, calls the calls made
\* to the codec and the trust store
NoRequest ==
    [op |-> "none", path |-> <<"">>, new_path |-> <<"">>, content |-> FALSE,
     type |-> "None", format |-> "None", given |-> NoGiven,
     id |-> 0, hook |-> "unset", hook_calls |-> 0,
     exc |-> NoExc, model |-> NoModel, value |-> FALSE, records |-> <<>>,
     calls |-> <<>>]

DirModel == [NoGiven EXCEPT !.type = "directory"]
TextModel(t) ==
    [type |-> "file", has_content |-> TRUE, content |-> t, format |-> "text"]
Base64Model(b) ==
    [type |-> "file", has_content |-> TRUE, content |-> b64encode(b),
     format |-> "base64"]
\* a file descriptor with no format key
NoFormatModel == [TextModel(<<65>>) EXCEPT !.format = "None"]

depth(path) == Len(path) - 1

\* a checkpoint directory or an entry of one
reserved(q) == \E i \in 1..Len(q) : q[i] = checkpoint_dir

\* the bounds are on the documents and directories of the clients; the
\* reserved entries are as many as the checkpoint requests make
within_bounds(st) ==
    /\ Cardinality({q \in DOMAIN st : ~reserved(q)}) - 1 <= MaxEntries
    /\ \A q \in DOMAIN st :
          /\ ~reserved(q) => depth(q) <= MaxDepth
          /\ Len(st[q].bytes) <= MaxLen

Init ==
    /\ store = EmptyStore
    /\ prev = EmptyStore
    /\ last = NoRequest

Get(paths, types, formats) ==
    \E path \in paths, content \in BOOLEAN, type \in types, format \in formats :
        /\ last = NoRequest
        /\ \E r \in {get(store, path, content, type, format)} :
            /\ last' = [NoRequest EXCEPT !.op = "get", !.path = path,
                           !.content = content, !.type = type, !.format = format,
                           !.exc = r.exc, !.model = r.model,
                           !.calls = get_calls(store, path, content, type, format)]
            /\ prev' = store
            /\ UNCHANGED store

Save(paths, models, hooks) ==
    \E path \in paths, model \in models, hook \in hooks :
        /\ last = NoRequest
        /\ \E r \in {save(store, model, path, hook)} :
            /\ within_bounds(r.store)
            /\ store' = r.store
            /\ prev' = store
            /\ last' = [NoRequest EXCEPT !.op = "save", !.path = path,
                           !.given = model, !.hook = hook,
                           !.hook_calls = pre_save_hook_calls(model, hook),
                           !.exc = r.exc, !.model = r.model,
                           !.calls = save_calls(store, model, path, hook)]

Delete(paths) ==
    \E path \in paths :
        /\ last = NoRequest
        /\ \E r \in {delete_file(store, path)} :
            /\ store' = r.store
            /\ prev' = store
            /\ last' = [NoRequest EXCEPT !.op = "delete", !.path = path, !.exc = r.exc]

\* a rename that carries the checkpoint of old over to new after the move
RenameWithCheckpoints(pairs) ==
    \E pair \in pairs :
        /\ last = NoRequest
        /\ \E impl \in BackendImpls :
            LET carried(r, l) ==
                    IF r.exc # NoExc \/ l.records = <<>>
                    THEN [exc |-> r.exc, store |-> r.store]
                    ELSE rename_checkpoint(r.store, 0, pair[1], pair[2], impl)
                done(r) == carried(r, list_checkpoints(r.store, pair[1]))
            IN \E r \in {done(rename_file(store, pair[1], pair[2], impl))} :
                /\ r.exc # "NoReturn"
                /\ within_bounds(r.store)
                /\ store' = r.store
                /\ prev' = store
                /\ last' = [NoRequest EXCEPT !.op = "rename", !.path = pair[1],
                               !.new_path = pair[2], !.exc = r.exc]

\* a rename that returns, with either implementation of the backend's move
Rename(pairs) ==
    \E pair \in pairs :
        /\ last = NoRequest
        /\ \E r \in {rename_file(store, pair[1], pair[2], impl) : impl \in BackendImpls} :
            /\ r.exc # "NoReturn"
            /\ within_bounds(r.store)
            /\ store' = r.store
            /\ prev' = store
            /\ last' = [NoRequest EXCEPT !.op = "rename", !.path = pair[1],
                           !.new_path = pair[2], !.exc = r.exc]

CreateFileCheckpoint(paths, models) ==
    \E path \in paths, model \in models :
        /\ last = NoRequest
        /\ \E r \in {create_file_checkpoint(store, model.content, model.format, path)} :
            /\ within_bounds(r.store)
            /\ store' = r.store
            /\ prev' = store
            /\ last' = [NoRequest EXCEPT !.op = "create_file_checkpoint",
                           !.path = path, !.given = model,
                           !.exc = r.exc, !.records = r.records]

\* nbs are the texts of notebook documents
CreateNotebookCheckpoint(paths, nbs) ==
    \E path \in paths, nb \in nbs :
        /\ last = NoRequest
        /\ \E r \in {create_notebook_checkpoint(store, <<"nb", nb>>, path)} :
            /\ within_bounds(r.store)
            /\ store' = r.store
            /\ prev' = store
            /\ last' = [NoRequest EXCEPT !.op = "create_notebook_checkpoint",
                           !.path = path,
                           !.given = [type |-> "notebook", has_content |-> TRUE,
                                      content |-> nb, format |-> "json"],
                           !.exc = r.exc, !.records = r.records,
                           !.calls = create_notebook_checkpoint_calls(
                                         store, <<"nb", nb>>, path)]

GetFileCheckpoint(paths, ids) ==
    \E path \in paths, id \in ids :
        /\ last = NoRequest
        /\ \E r \in {get_file_checkpoint(store, id, path)} :
            /\ last' = [NoRequest EXCEPT !.op = "get_file_checkpoint",
                           !.path = path, !.id = id,
                           !.exc = r.exc, !.model = r.model]
            /\ prev' = store
            /\ UNCHANGED store

GetNotebookCheckpoint(paths, ids) ==
    \E path \in paths, id \in ids :
        /\ last = NoRequest
        /\ \E r \in {get_notebook_checkpoint(store, id, path)} :
            /\ last' = [NoRequest EXCEPT !.op = "get_notebook_checkpoint",
                           !.path = path, !.id = id,
                           !.exc = r.exc, !.model = r.model,
                           !.calls = get_notebook_checkpoint_calls(store, id, path)]
            /\ prev' = store
            /\ UNCHANGED store

ListCheckpoints(paths) ==
    \E path \in paths :
        /\ last = NoRequest
        /\ \E r \in {list_checkpoints(store, path)} :
            /\ last' = [NoRequest EXCEPT !.op = "list_checkpoints", !.path = path,
                           !.exc = r.exc, !.records = r.records]
            /\ prev' = store
            /\ UNCHANGED store

DeleteCheckpoint(paths, ids) ==
    \E path \in paths, id \in ids :
        /\ last = NoRequest
        /\ \E r \in {delete_checkpoint(store, id, path)} :
            /\ store' = r.store
            /\ prev' = store
            /\ last' = [NoRequest EXCEPT !.op = "delete_checkpoint", !.path = path,
                           !.id = id, !.exc = r.exc]

RenameCheckpoint(pairs, ids) ==
    \E pair \in pairs, id \in ids :
        /\ last = NoRequest
        /\ \E r \in {rename_checkpoint(store, id, pair[1], pair[2], impl) :
                         impl \in BackendImpls} :
            /\ r.exc # "NoReturn"
            /\ within_bounds(r.store)
            /\ store' = r.store
            /\ prev' = store
            /\ last' = [NoRequest EXCEPT !.op = "rename_checkpoint",
                           !.path = pair[1], !.new_path = pair[2], !.id = id,
                           !.exc = r.exc]

\* file_exists, dir_exists and is_hidden of the manager, and is_hidden of
\* the second variant
Predicate(paths, ops) ==
    \E path \in paths, op \in ops :
        /\ last = NoRequest
        /\ \E r \in {CASE op = "file_exists" -> file_exists(store, path)
                        [] op = "dir_exists" -> dir_exists(store, path)
                        [] op = "is_hidden" -> is_hidden(store, path)
                        [] op = "mixin_is_hidden" -> mixin_is_hidden(store, path)} :
            /\ last' = [NoRequest EXCEPT !.op = op, !.path = path,
                           !.exc = r.exc, !.value = r.value]
            /\ prev' = store
            /\ UNCHANGED store

\* get of the second variant, on paths whose names do not end in .ipynb
\* (those go to the notebook codec)
MixinGet(paths, types, formats) ==
    \E path \in paths, content \in BOOLEAN, type \in types, format \in formats :
        /\ last = NoRequest
        /\ ~endswith_ipynb(path)
        /\ \E r \in {mixin_get(store, path, content, type, format)} :
            /\ last' = [NoRequest EXCEPT !.op = "mixin_get", !.path = path,
                           !.content = content, !.type = type, !.format = format,
                           !.exc = r.exc, !.model = r.model]
            /\ prev' = store
            /\ UNCHANGED store

\* get(path, content=False, type='directory') of the OMERO variant
OmeroGet(paths) ==
    \E path \in paths :
        /\ last = NoRequest
        /\ \E r \in {omero_get(path)} :
            /\ last' = [NoRequest EXCEPT !.op = "omero_get", !.path = path,
                           !.type = "directory", !.exc = r.exc, !.model = r.model]
            /\ prev' = store
            /\ UNCHANGED store

\* save of the OMERO variant
OmeroSave(paths, models) ==
    \E path \in paths, model \in models :
        /\ last = NoRequest
        /\ \E r \in {omero_save(store, model, path, "unset")} :
            /\ within_bounds(r.store)
            /\ store' = r.store
            /\ prev' = store
            /\ last' = [NoRequest EXCEPT !.op = "omero_save", !.path = path,
                           !.given = model, !.exc = r.exc,
                           !.value = omero_file_exists(r.store, path)]

\* delete_file of the second variant
MixinDelete(paths) ==
    \E path \in paths :
        /\ last = NoRequest
        /\ \E r \in {mixin_delete_file(store, path)} :
            /\ store' = r.store
            /\ prev' = store
            /\ last' = [NoRequest EXCEPT !.op = "mixin_delete", !.path = path,
                           !.exc = r.exc]

\* the first step of a file save: the checks and the write.  A save that
\* is refused is answered at once; one that has written is "saving", and
\* records will be the requests of other clients that run before its
\* re-read
SaveFileWrite(paths, models) ==
    \E path \in paths, model \in models :
        /\ last = NoRequest
        /\ \E r \in {_save_file_write(store, path, model)} :
            /\ within_bounds(r.store)
            /\ store' = r.store
            /\ prev' = store
            /\ last' = [NoRequest EXCEPT
                           !.op = IF r.exc = NoExc THEN "saving" ELSE "save_file",
                           !.path = path, !.given = model, !.exc = r.exc]

\* a save, a delete or a rename of another client, run whole between the
\* write and the re-read of the save in progress
Between(paths, models) ==
    /\ last.op = "saving"
    /\ Len(last.records) < MaxBetween
    /\ \/ \E path \in paths, model \in models :
             \E r \in {save(store, model, path, "unset")} :
                 /\ within_bounds(r.store)
                 /\ store' = r.store
                 /\ last' = [last EXCEPT !.records = Append(@, "save")]
       \/ \E path \in paths :
             \E r \in {delete_file(store, path)} :
                 /\ store' = r.store
                 /\ last' = [last EXCEPT !.records = Append(@, "delete")]
       \/ \E path \in paths, new_path \in paths :
             \E r \in {rename_file(store, path, new_path, impl) :
                           impl \in BackendImpls} :
                 /\ r.exc # "NoReturn"
                 /\ within_bounds(r.store)
                 /\ store' = r.store
                 /\ last' = [last EXCEPT !.records = Append(@, "rename")]
    /\ UNCHANGED prev

\* the second step of the file save: the re-read, and the answer
SaveFileReread ==
    /\ last.op = "saving"
    /\ \E r \in {_save_file_reread(store, last.path)} :
          last' = [last EXCEPT !.op = "save_file", !.exc = r.exc, !.model = r.model]
    /\ UNCHANGED <<store, prev>>

\* A rename in its two steps, and the rename of a second client running
\* with it.  records holds the steps taken, in order: who took it (1 the
\* request of last, 2 the second client), the step, the validated paths and
\* the kind found by the check, the backend's implementation of the move,
\* and the outcome.
RenameStep(who, step, r, impl, exc) ==
    [who |-> who, step |-> step, old |-> r.old, new |-> r.new,
     is_dir |-> r.is_dir, impl |-> impl, exc |-> exc]

\* the steps of who, in order
steps_of(who) == SelectSeq(last.records, LAMBDA x : x.who = who)

\* who has passed the check and not yet moved
passed_check(who) ==
    /\ last.op \in {"renaming", "rename"}
    /\ Len(steps_of(who)) = 1
    /\ steps_of(who)[1].exc = NoExc

\* the first step of rename_file: the paths are validated and the target of
\* a directory is tested
RenameFileCheck(pairs) ==
    \E pair \in pairs :
        /\ last = NoRequest
        /\ \E r \in {rename_file_check(store, pair[1], pair[2])} :
            /\ last' = [NoRequest EXCEPT
                           !.op = IF r.exc = NoExc THEN "renaming" ELSE "rename",
                           !.path = pair[1], !.new_path = pair[2], !.exc = r.exc,
                           !.records = <<RenameStep(1, "check", r, "none", r.exc)>>]
            /\ prev' = store
            /\ UNCHANGED store

\* the first step of the rename of a second client, taken while the rename
\* of last is between its check and its move
OtherRenameFileCheck(pairs) ==
    \E pair \in pairs :
        /\ last.op = "renaming"
        /\ Len(last.records) = 1
        /\ \E r \in {rename_file_check(store, pair[1], pair[2])} :
              last' = [last EXCEPT
                          !.records = Append(@, RenameStep(2, "check", r, "none", r.exc))]
        /\ UNCHANGED <<store, prev>>

\* the second step of either rename: the backend's move
RenameFileMove ==
    \E who \in {1, 2}, impl \in BackendImpls :
        /\ passed_check(who)
        /\ \E r \in {rename_file_move(store, steps_of(who)[1].old, steps_of(who)[1].new,
                                       steps_of(who)[1].is_dir, impl)} :
            /\ r.exc # "NoReturn"
            /\ within_bounds(r.store)
            /\ store' = r.store
            /\ last' = [last EXCEPT
                           !.op = IF who = 1 THEN "rename" ELSE @,
                           !.exc = IF who = 1 THEN r.exc ELSE @,
                           !.records = Append(@, RenameStep(who, "move", steps_of(who)[1],
                                                            impl, r.exc))]
        /\ UNCHANGED prev

Deliver ==
    /\ last # NoRequest
    /\ last.op # "saving"
    /\ last.op # "renaming"
    /\ ~(last.op = "rename" /\ last.records # <<>> /\ passed_check(2))
    /\ last' = NoRequest
    /\ prev' = store
    /\ UNCHANGED store

----------------------------------------------------------------------------
(* Spec: requests on a tree of directories and files, with client paths    *)
(* written without "." and ".." segments.                                  *)

RECURSIVE NameSeqs(_)
NameSeqs(n) ==
    IF n = 0 THEN {<<>>}
    ELSE LET shorter == NameSeqs(n - 1) IN
         shorter \cup {Append(s, x) : s \in shorter, x \in Names}

\* "" (the root) and the relative paths "a", "a/n.ipynb", ...
TreePaths == {<<"">>} \cup (NameSeqs(MaxDepth) \ {<<>>})

TreeModels == {DirModel, TextModel(<<65>>), TextModel(<<233>>)}

Next ==
    \/ Get(TreePaths, Types \cup {"None"}, {"None"})
    \/ Save(TreePaths, TreeModels, {"unset"})
    \/ Delete(TreePaths)
    \/ Rename(TreePaths \X TreePaths)
    \/ Deliver

Spec == Init /\ [][Next]_vars

----------------------------------------------------------------------------
(* SpecCodec: saves and reads of file content in every format.             *)

CodecPaths == {<<"a">>, <<"n.ipynb">>}

Texts == {t \in SeqsUpTo(CharVals, MaxLen) : Len(utf8_encode(t)) <= MaxLen}
ByteSeqs == SeqsUpTo(ByteVals, MaxLen)

CodecModels == {TextModel(t) : t \in Texts} \cup {Base64Model(b) : b \in ByteSeqs}

NextCodec ==
    \/ Get(CodecPaths, Types \cup {"None"}, Formats \cup {"None"})
    \/ Save(CodecPaths, CodecModels, {"unset"})
    \/ Delete(CodecPaths)
    \/ Deliver

SpecCodec == Init /\ [][NextCodec]_vars

----------------------------------------------------------------------------
(* SpecPaths: requests with client paths of every spelling.                *)

\* the segments of a client path: a name, the empty segment of a leading,
\* trailing or doubled slash, "." and ".."
Components == IpynbNames \cup {"", ".", ".."}

ClientPaths == SeqsUpTo(Components, MaxSegs) \ {<<>>}

SimplePaths == {<<n>> : n \in Names}

\* "" and "/"
RootPaths == {<<"">>, <<"", "">>}

PathModels == {DirModel, TextModel(<<65>>), NoFormatModel}

NextPaths ==
    \/ Get(ClientPaths, Types \cup {"None"}, {"None"})
    \/ Save(ClientPaths, PathModels, {"unset"})
    \/ Delete(ClientPaths)
    \/ Rename((ClientPaths \X SimplePaths) \cup (SimplePaths \X ClientPaths)
                 \cup (RootPaths \X ClientPaths))
    \/ Deliver

SpecPaths == Init /\ [][NextPaths]_vars

----------------------------------------------------------------------------
(* SpecCheckpoints: documents and their checkpoints.  The clients write    *)
(* documents; the reserved names are written by the checkpoint store only. *)

\* "a", "n.ipynb", "a/n.ipynb" and, above the root, ".."
CheckpointDocs == {<<"a">>, <<"n.ipynb">>, <<"a", "n.ipynb">>}
CheckpointPaths == CheckpointDocs \cup {<<"..">>}

CheckpointIds == {0, 1}

DocModels == {DirModel, TextModel(<<65>>)}

\* "A" and "é" as text, "A" and the lone byte 0xC3 in base64
CheckpointModels ==
    {checkpoint_file_model(<<65>>, "text"), checkpoint_file_model(<<233>>, "text"),
     checkpoint_file_model(b64encode(<<65>>), "base64"),
     checkpoint_file_model(b64encode(<<195>>), "base64")}

CheckpointNotebooks == {<<65>>, <<65, 65>>}

NextCheckpoints ==
    \/ Save(CheckpointDocs, DocModels, {"unset"})
    \/ Delete(CheckpointDocs)
    \/ CreateFileCheckpoint(CheckpointPaths, CheckpointModels)
    \/ CreateNotebookCheckpoint(CheckpointPaths, CheckpointNotebooks)
    \/ GetFileCheckpoint(CheckpointPaths, CheckpointIds)
    \/ GetNotebookCheckpoint(CheckpointPaths, CheckpointIds)
    \/ ListCheckpoints(CheckpointPaths)
    \/ DeleteCheckpoint(CheckpointPaths, CheckpointIds)
    \/ RenameCheckpoint(CheckpointPaths \X CheckpointPaths, CheckpointIds)
    \/ Deliver

SpecCheckpoints == Init /\ [][NextCheckpoints]_vars

----------------------------------------------------------------------------
(* SpecRenamed: documents with checkpoints that are renamed, by the manager *)
(* and by the checkpoint store.                                             *)

RenamedModels == {checkpoint_file_model(<<65>>, "text")}

NextRenamed ==
    \/ Save(CheckpointDocs, DocModels, {"unset"})
    \/ Delete(CheckpointDocs)
    \/ Rename(CheckpointDocs \X CheckpointDocs)
    \/ CreateFileCheckpoint(CheckpointDocs, RenamedModels)
    \/ ListCheckpoints(CheckpointDocs)
    \/ RenameCheckpoint(CheckpointDocs \X CheckpointDocs, {0})
    \/ Deliver

SpecRenamed == Init /\ [][NextRenamed]_vars

----------------------------------------------------------------------------
(* SpecNotebooks: notebooks saved and read as documents and as checkpoints. *)

\* a notebook, a notebook descriptor with no 'content' key, a directory and
\* a text that is no notebook
NotebookModels ==
    {[type |-> "notebook", has_content |-> TRUE, content |-> <<"nb", <<65>>>>,
      format |-> "json"],
     [type |-> "notebook", has_content |-> FALSE, content |-> <<>>,
      format |-> "None"],
     DirModel, TextModel(<<66>>)}

NextNotebooks ==
    \/ Save(CheckpointPaths, NotebookModels, {"unset", "returns", "raises"})
    \/ Get(CheckpointPaths, {"None", "notebook", "file"}, {"None", "text"})
    \/ Delete(CheckpointDocs)
    \/ CreateNotebookCheckpoint(CheckpointPaths, CheckpointNotebooks)
    \/ GetNotebookCheckpoint(CheckpointPaths, {0})
    \/ Deliver

SpecNotebooks == Init /\ [][NextNotebooks]_vars

----------------------------------------------------------------------------
(* SpecRenames: two clients renaming, each rename in its two steps.        *)

RenameDirs == {<<"a">>, <<"b">>, <<"c">>}
RenameFiles == {<<"a", "f">>, <<"b", "f">>}

RenamePairs ==
    (RenameDirs \X RenameDirs)
        \cup {<<<<"a", "f">>, <<"b", "f">>>>, <<<<"a", "f">>, <<"c">>>>}

NextRenames ==
    \/ Save(RenameDirs \cup RenameFiles, {DirModel, TextModel(<<65>>)}, {"unset"})
    \/ RenameFileCheck(RenamePairs)
    \/ OtherRenameFileCheck(RenamePairs)
    \/ RenameFileMove
    \/ Deliver

SpecRenames == Init /\ [][NextRenames]_vars

----------------------------------------------------------------------------
(* SpecEncoding: file saves whose content can and cannot be encoded, on    *)
(* the filesystem backend and on the OMERO server.                         *)

EncodingPaths == {<<"a">>, <<"n.ipynb">>}
OmeroFilePaths == {<<"jupyter", "a">>, <<"", "jupyter", "n.ipynb">>, <<"a">>}

\* base64 text of one character is no whole quad
MalformedModel ==
    [type |-> "file", has_content |-> TRUE, content |-> <<65>>, format |-> "base64"]

EncodingModels ==
    {TextModel(<<65>>), Base64Model(<<65, 66>>), Base64Model(<<195>>),
     MalformedModel, DirModel}

NextEncoding ==
    \/ Save(EncodingPaths, EncodingModels, {"unset"})
    \/ OmeroSave(OmeroFilePaths, EncodingModels)
    \/ Delete(EncodingPaths)
    \/ Deliver

SpecEncoding == Init /\ [][NextEncoding]_vars

----------------------------------------------------------------------------
(* SpecPredicates: the predicates on client paths of every spelling, over  *)
(* stores with hidden and plain names.                                     *)

PredicateOps == {"file_exists", "dir_exists", "is_hidden", "mixin_is_hidden"}

PredicateNames == {"a", ".h"}

\* paths of names, and paths with "", "." and ".." segments
PredicatePaths ==
    (SeqsUpTo(PredicateNames, MaxDepth) \ {<<>>})
        \cup (SeqsUpTo({".h", "", ".", ".."}, MaxSegs) \ {<<>>})

PredicateModels == {DirModel, TextModel(<<65>>)}

NextPredicates ==
    \/ Save(SeqsUpTo(PredicateNames, MaxDepth) \ {<<>>}, PredicateModels, {"unset"})
    \/ Delete(SeqsUpTo(PredicateNames, MaxDepth) \ {<<>>})
    \/ Predicate(PredicatePaths, PredicateOps)
    \/ Deliver

SpecPredicates == Init /\ [][NextPredicates]_vars

----------------------------------------------------------------------------
(* SpecSave: saves of descriptors of every shape, with and without a       *)
(* pre-save hook.                                                          *)

SavePaths == {<<"a">>, <<"n.ipynb">>, <<"a", "a">>}

\* a descriptor with no 'type' key, with 'type' None, with a type that is
\* none of the three
MissingTypeModel == [TextModel(<<65>>) EXCEPT !.type = "Missing"]
NoTypeModel == [TextModel(<<65>>) EXCEPT !.type = "None"]
UnknownTypeModel == [TextModel(<<65>>) EXCEPT !.type = "other"]

\* file descriptors with no 'content' key, with a format that is neither
\* text nor base64
NoContentModel ==
    [type |-> "file", has_content |-> FALSE, content |-> <<>>, format |-> "text"]
BadFormatModel == [TextModel(<<65>>) EXCEPT !.format = "json"]

NotebookModel ==
    [type |-> "notebook", has_content |-> TRUE, content |-> <<"nb", <<65>>>>,
     format |-> "json"]

SaveModels ==
    {MissingTypeModel, NoTypeModel, UnknownTypeModel, NoContentModel,
     NoFormatModel, BadFormatModel, NotebookModel, DirModel,
     TextModel(<<65>>), TextModel(<<66>>)}

NextSave ==
    \/ Get(SavePaths, {"None"}, {"None"})
    \/ Save(SavePaths, SaveModels, Hooks)
    \/ Delete(SavePaths)
    \/ Deliver

SpecSave == Init /\ [][NextSave]_vars

----------------------------------------------------------------------------
(* SpecDelete: deletes by both variants of the manager on a tree of        *)
(* directories and files.                                                  *)

DeletePaths == TreePaths \cup {<<"..">>}

NextDelete ==
    \/ Get(TreePaths, {"None"}, {"None"})
    \/ Save(TreePaths, TreeModels, {"unset"})
    \/ Delete(DeletePaths)
    \/ MixinDelete(TreePaths)
    \/ Deliver

SpecDelete == Init /\ [][NextDelete]_vars

----------------------------------------------------------------------------
(* SpecListing: gets by both variants of the manager on a tree of          *)
(* directories and files, for every kind and format.                       *)

\* "", "/", "jupyter", "/jupyter", "/jupyter/" and "a"
OmeroPaths ==
    {<<"">>, <<"", "">>, <<"jupyter">>, <<"", "jupyter">>, <<"", "jupyter", "">>,
     <<"a">>}

NextListing ==
    \/ Get(TreePaths, Types \cup {"None"}, Formats \cup {"None"})
    \/ OmeroGet(OmeroPaths)
    \/ MixinGet(TreePaths, {"None", "file", "directory"}, Formats \cup {"None"})
    \/ Save(TreePaths, TreeModels, {"unset"})
    \/ Delete(TreePaths)
    \/ Deliver

SpecListing == Init /\ [][NextListing]_vars

----------------------------------------------------------------------------
(* SpecConcurrent: file saves in two steps, with the requests of other     *)
(* clients between them.                                                   *)

ConcurrentPaths == {<<"a">>, <<"n.ipynb">>}

\* "A", one byte, and "é", two
ConcurrentModels == {TextModel(<<65>>), TextModel(<<233>>)}

NextConcurrent ==
    \/ SaveFileWrite(ConcurrentPaths, ConcurrentModels \cup {NoFormatModel})
    \/ Between(ConcurrentPaths, ConcurrentModels \cup {DirModel})
    \/ SaveFileReread
    \/ Delete(ConcurrentPaths)
    \/ Deliver

SpecConcurrent == Init /\ [][NextConcurrent]_vars

----------------------------------------------------------------------------
(* Properties of paths.  They are stated on the answer being delivered:    *)
(* last is the request with its outcome, prev the store before it, store   *)
(* the store after it.                                                     *)

\* the canonical path of the request's path, where it is inside the root
target == validatepath(last.path).path

\* the path resolves above the root
escapes(path) == validatepath(path).exc # NoExc

\* the request names a path that resolves above the root
EscapingRequest ==
    \/ last.op \in {"get", "save", "delete"} /\ escapes(last.path)
    \/ last.op = "rename" /\ (escapes(last.path) \/ escapes(last.new_path))

\* the descriptor of a file with content in a format that decodes
WellFormed(model) ==
    /\ model.has_content
    /\ model.format \in Formats
    /\ model.format = "base64" => b64decode(model.content).ok

\* the answer to every request on a path above the root: 404, nothing
\* returned, nothing changed, whatever the store holds
NotFoundUnchanged ==
    /\ last.exc = "HTTP404"
    /\ last.model = NoModel
    /\ store = prev

\* C4 as stated: every get, delete, rename and save of a file whose path
\* resolves above the root fails with 404, leaves the store unchanged and
\* gives the same outcome whatever the store holds.
C4_EscapeNotFound_Stated ==
    EscapingRequest /\ (last.op = "save" => last.given.type = "file")
        => NotFoundUnchanged

\* C4: the same for get, delete, rename, the save of a directory and the
\* save of a file whose descriptor has content and a format (text, or base64
\* that decodes); a save of a file without them fails with 400 whatever its
\* path is, and changes nothing either.
C4_EscapeNotFound ==
    EscapingRequest =>
        IF last.op = "save" /\ last.given.type = "file" /\ ~WellFormed(last.given)
        THEN last.exc = "HTTP400" /\ last.model = NoModel /\ store = prev
        ELSE NotFoundUnchanged

\* the save of a text file at a path above the root, refused while the store
\* holds entries
C4_Witness ==
    /\ last.op = "save" /\ escapes(last.path)
    /\ last.given.type = "file" /\ WellFormed(last.given)
    /\ DOMAIN store # {Root}
    /\ last.exc = "HTTP404"

\* the fields of two descriptors, compared kind first
SameDescriptor(m1, m2) ==
    /\ m1.type = m2.type
    /\ m1.name = m2.name
    /\ m1.path = m2.path
    /\ m1.size = m2.size
    /\ m1.format = m2.format
    /\ m1.content = m2.content

\* C5 as stated: two client paths inside the root with the same canonical
\* path get equal descriptors (kind, name, path, size, format and content)
\* for the same other arguments.
C5_SameCanonicalSameGet ==
    last.op = "get" /\ last.exc = NoExc =>
        \A q \in ClientPaths :
            validatepath(q) = validatepath(last.path) =>
                LET same(r) == r.exc = NoExc => SameDescriptor(r.model, last.model)
                IN same(get(store, q, last.content, last.type, last.format))

\* the source of the rename is the root
RenamedRoot ==
    /\ last.op = "rename"
    /\ ~escapes(last.path)
    /\ target = Root

\* C9 as stated: a rename whose source is the root fails with 409 for every
\* target path and leaves the store unchanged.
C9_RenameRoot_Stated ==
    RenamedRoot => last.exc = "HTTP409" /\ store = prev

\* C9: a rename whose source is the root fails with 409 for every target
\* path inside the root, present or not, and with 404 for a target path above
\* the root; the store is unchanged.
C9_RenameRoot ==
    RenamedRoot =>
        /\ last.exc = (IF escapes(last.new_path) THEN "HTTP404" ELSE "HTTP409")
        /\ store = prev

\* the root renamed to a path where nothing is, while the store holds entries
C9_Witness ==
    /\ RenamedRoot
    /\ ~escapes(last.new_path)
    /\ ~exists(prev, validatepath(last.new_path).path)
    /\ DOMAIN prev # {Root}
    /\ last.exc = "HTTP409"

----------------------------------------------------------------------------
(* Properties of rename.                                                   *)

\* the canonical path of a rename's target, where it is inside the root
new_target == validatepath(last.new_path).path

\* a rename between two paths inside the root
Renamed == last.op = "rename" /\ ~escapes(last.path) /\ ~escapes(last.new_path)

\* C6: a rename to a path where an entry is fails with 409, for a file or a
\* directory at either path and for a rename of an entry to itself, and the
\* store is unchanged: the source and the target hold what they held.
C6_RenameOntoExisting ==
    Renamed /\ exists(prev, target) /\ exists(prev, new_target) =>
        /\ last.exc = "HTTP409"
        /\ store = prev

\* a file renamed to the path of a directory, and refused
C6_Witness ==
    /\ Renamed
    /\ isfile(prev, target)
    /\ isdir(prev, new_target)
    /\ new_target # Root
    /\ last.exc = "HTTP409"

\* where the rename takes the entry q at or below its source
moved_to(q) == new_target \o SubSeq(q, Len(target) + 1, Len(q))

kind(st, q) == IF st[q].is_dir THEN "directory" ELSE "file"

\* reading after what reading before gave: the kind, and for a file the
\* size, format and content
SameEntry(before, after) ==
    /\ after.exc = NoExc
    /\ after.model.type = before.model.type
    /\ after.model.size = before.model.size
    /\ after.model.format = before.model.format
    /\ after.model.content = before.model.content

\* C7 as stated: after a successful rename every entry at or below the old
\* path is not found there, and is read at the same place below the new path
\* with the kind and content it had.
C7_RenameRelocates ==
    Renamed /\ last.exc = NoExc =>
        \A q \in DOMAIN prev :
            isbase(target, q) =>
                /\ get(store, q, TRUE, kind(prev, q), "None").exc = "HTTP404"
                /\ SameEntry(get(prev, q, ~prev[q].is_dir, kind(prev, q), "None"),
                             get(store, moved_to(q), ~prev[q].is_dir,
                                 kind(prev, q), "None"))

\* C8: a successful rename leaves every entry that is neither at nor below
\* the old or the new path as it was, and adds no entry anywhere else:
\* directories beside and above keep their other children, files their bytes.
C8_RenameFrame ==
    Renamed /\ last.exc = NoExc =>
        \A q \in DOMAIN prev \cup DOMAIN store :
            ~isbase(target, q) /\ ~isbase(new_target, q) =>
                /\ q \in DOMAIN prev
                /\ q \in DOMAIN store
                /\ store[q] = prev[q]

\* a successful rename of an entry that has another entry beside it
C8_Witness ==
    /\ Renamed /\ last.exc = NoExc
    /\ store # prev
    /\ \E q \in DOMAIN prev :
           /\ q # Root /\ q # target
           /\ dirname(q) = dirname(target)
           /\ ~isbase(new_target, q)

\* C10: a rename from a path where nothing is fails and leaves the store
\* unchanged; with nothing at the new path either it fails with 404.
C10_RenameAbsent ==
    Renamed /\ ~exists(prev, target) =>
        /\ last.exc # NoExc
        /\ store = prev
        /\ ~exists(prev, new_target) => last.exc = "HTTP404"

\* a rename from a path where nothing is to a free name of an existing
\* directory
C10_Witness ==
    /\ Renamed
    /\ ~exists(prev, target)
    /\ ~exists(prev, new_target)
    /\ isdir(prev, dirname(new_target))
    /\ dirname(new_target) # Root
    /\ last.exc = "HTTP404"

----------------------------------------------------------------------------
(* Properties of content.                                                  *)


SavedText ==
    /\ last.op = "save" /\ last.exc = NoExc
    /\ last.given.type = "file" /\ last.given.format = "text"

\* C1: after a successful save of a file with format text, whatever the path
\* held before, get(path, content, type file, format text) returns exactly
\* the saved text and a size equal to its UTF-8 byte length.
C1_TextLastWriteWins ==
    SavedText =>
        LET reads(r) ==
                /\ r.exc = NoExc
                /\ r.model.format = "text"
                /\ r.model.content = Some(last.given.content)
                /\ r.model.size = Some(Len(utf8_encode(last.given.content)))
        IN reads(get(store, last.path, TRUE, "file", "text"))

\* a save of a text that is not empty over a file that held more bytes
C1_Witness ==
    /\ SavedText
    /\ isfile(prev, target)
    /\ Len(prev[target].bytes) > Len(utf8_encode(last.given.content))
    /\ last.given.content # <<>>

SavedBase64 ==
    /\ last.op = "save" /\ last.exc = NoExc
    /\ last.given.type = "file" /\ last.given.format = "base64"

\* C2: after a successful save of a file with format base64 and the base64
\* text of any bytes, get(path, content, type file, format base64) returns
\* that base64 text unchanged and format base64.
C2_Base64RoundTrip ==
    SavedBase64 =>
        LET reads(r) ==
                /\ r.exc = NoExc
                /\ r.model.format = "base64"
                /\ r.model.content = Some(last.given.content)
        IN reads(get(store, last.path, TRUE, "file", "base64"))

\* a base64 save of bytes that are not empty and are valid UTF-8
C2_Witness ==
    /\ SavedBase64
    /\ store[target].bytes # <<>>
    /\ utf8_decode(store[target].bytes).ok
    /\ b64encode(store[target].bytes) = last.given.content

\* a get with content of a stored file, taken as a file (asked for as one, or
\* guessed to be one)
GotFile ==
    /\ last.op = "get" /\ last.content
    /\ isfile(store, target)
    /\ \/ last.type = "file"
       \/ last.type = "None" /\ ~endswith_ipynb(last.path)

\* C3: reading a file whose bytes are not UTF-8 with no format never fails
\* and returns format base64 with the base64 of the bytes; with format text
\* it fails with 400; a file whose bytes are UTF-8 read with no format comes
\* back as text; and a get never changes the store.
C3_AutoFormat ==
    /\ last.op = "get" => store = prev
    /\ GotFile =>
        LET bcontent == store[target].bytes
            utf8(t) ==
                /\ ~t.ok /\ last.format = "None" =>
                       /\ last.exc = NoExc
                       /\ last.model.format = "base64"
                       /\ last.model.content = Some(b64encode(bcontent))
                /\ ~t.ok /\ last.format = "text" => last.exc = "HTTP400"
                /\ t.ok /\ last.format = "None" =>
                       /\ last.exc = NoExc
                       /\ last.model.format = "text"
                       /\ last.model.content = Some(t.text)
        IN utf8(utf8_decode(bcontent))

\* a read with no format of a file whose bytes are not UTF-8, answered in
\* base64
C3_Witness ==
    /\ GotFile
    /\ last.format = "None"
    /\ ~utf8_decode(store[target].bytes).ok
    /\ last.exc = NoExc
    /\ last.model.format = "base64"

\* a read with format text of a file whose bytes are not UTF-8
C3_WitnessText ==
    /\ GotFile
    /\ last.format = "text"
    /\ ~utf8_decode(store[target].bytes).ok
    /\ last.exc = "HTTP400"

----------------------------------------------------------------------------
(* Properties of checkpoints.                                              *)

\* the derived checkpoint path of the request's document, for id 0
cp_target == _checkpoint_path(0, last.path).path

CreatedCheckpoint ==
    /\ last.op \in {"create_file_checkpoint", "create_notebook_checkpoint"}
    /\ last.exc = NoExc

\* the bytes a descriptor's content stands for
content_bytes(content, format) ==
    IF format = "text" THEN utf8_encode(content) ELSE b64decode(content).bytes

\* reading the checkpoint returns what the create stored: for a file
\* checkpoint the bytes of the content (the read chooses the format by the
\* bytes, so bytes given in base64 that are valid UTF-8 come back as text),
\* for a notebook checkpoint the notebook document
ReadsCreated ==
    IF last.op = "create_file_checkpoint"
    THEN LET reads(r) ==
                 /\ r.exc = NoExc
                 /\ r.model.format \in Formats
                 /\ content_bytes(r.model.content[1], r.model.format)
                        = content_bytes(last.given.content, last.given.format)
         IN reads(get_file_checkpoint(store, 0, last.path))
    ELSE LET reads(r) ==
                 /\ r.exc = NoExc
                 /\ r.model.format = "json"
                 /\ r.model.content = Some(<<"nb", last.given.content>>)
         IN reads(get_notebook_checkpoint(store, 0, last.path))

\* C11: whatever checkpoints were created before, the records returned by a
\* create or a list are at most one and have id '0'; after a create the list
\* for the path is one record and reading the checkpoint returns what this
\* create stored, also where a checkpoint was there before.
C11_SingleSlot ==
    /\ last.op \in {"create_file_checkpoint", "create_notebook_checkpoint",
                    "list_checkpoints"}
          => /\ Len(last.records) <= 1
             /\ \A i \in 1..Len(last.records) : last.records[i].id = "0"
    /\ CreatedCheckpoint
          => /\ last.records = <<[id |-> "0"]>>
             /\ list_checkpoints(store, last.path).exc = NoExc
             /\ list_checkpoints(store, last.path).records = <<[id |-> "0"]>>
             /\ ReadsCreated

\* a second create for a path, with bytes other than the first's
C11_Witness ==
    /\ CreatedCheckpoint
    /\ isfile(prev, cp_target)
    /\ prev[cp_target].bytes # store[cp_target].bytes
    /\ prev[cp_target].bytes # <<>>

\* the delete of a document that has a checkpoint
DeletedCheckpointed ==
    /\ last.op = "delete" /\ last.exc = NoExc
    /\ ~escapes(last.path)
    /\ isfile(prev, target)
    /\ isfile(prev, cp_target)

\* C12: after the delete of a document path that has a checkpoint,
\* list_checkpoints(path) returns no record and nothing exists at the derived
\* checkpoint path.
C12_DeleteRemovesCheckpoint ==
    DeletedCheckpointed =>
        /\ list_checkpoints(store, last.path).records = <<>>
        /\ ~exists(store, cp_target)

\* the store after is the store before without the entry at q
RemovedOnly(q) ==
    /\ DOMAIN store = DOMAIN prev \ {q}
    /\ \A p \in DOMAIN store : store[p] = prev[p]

\* C13: delete_checkpoint(id, path) for a document path inside the root
\* fails with 404 and changes nothing when no checkpoint file is at the
\* derived path (never created, deleted before, or an id other than 0);
\* when the file is there, it is removed and every other entry, the owning
\* document among them, is as before.
C13_DeleteCheckpoint ==
    last.op = "delete_checkpoint" /\ ~escapes(last.path) =>
        LET outcome(cp) ==
                IF isfile(prev, cp)
                THEN last.exc = NoExc /\ RemovedOnly(cp)
                ELSE last.exc = "HTTP404" /\ store = prev
        IN outcome(_checkpoint_path(last.id, last.path).path)

\* the checkpoint of a stored file is deleted
C13_Witness ==
    /\ last.op = "delete_checkpoint" /\ last.id = 0
    /\ ~escapes(last.path)
    /\ isfile(prev, target)
    /\ isfile(prev, cp_target)
    /\ ~exists(store, cp_target)
    /\ isfile(store, target)

\* the derived checkpoint path of the rename's new document path
cp_new_target == _checkpoint_path(0, last.new_path).path

\* rename_checkpoint(0, old, new) for a document that has a checkpoint
RenamedCheckpoint ==
    /\ last.op = "rename_checkpoint" /\ last.id = 0
    /\ ~escapes(last.path) /\ ~escapes(last.new_path)
    /\ isfile(prev, cp_target)

\* the checkpoint read for new is the one that was read for old
CarriedOver ==
    LET same(before, after) ==
            /\ before.exc = NoExc /\ after.exc = NoExc
            /\ after.model.format = before.model.format
            /\ after.model.content = before.model.content
    IN same(get_file_checkpoint(prev, 0, last.path),
            get_file_checkpoint(store, 0, last.new_path))

----------------------------------------------------------------------------
(* Properties of the predicates.                                           *)

\* C15: file_exists, dir_exists and is_hidden raise for no path and change
\* nothing; file_exists and dir_exists answer true exactly for a path inside
\* the root that holds an entry of the kind, is_hidden exactly for a path
\* inside the root whose leaf name begins with '.'.
C15_PredicatesNeverRaise ==
    last.op \in PredicateOps =>
        /\ last.exc = NoExc
        /\ store = prev
        /\ last.value =
              (/\ ~escapes(last.path)
               /\ CASE last.op = "file_exists" -> isfile(prev, target)
                    [] last.op = "dir_exists" -> isdir(prev, target)
                    [] OTHER -> startswith_dot(basename(target)[1]))

----------------------------------------------------------------------------
(* Properties of save.                                                     *)

\* the hook, if there is one, returns or its failure is logged and the
\* save goes on
HookPasses == last.hook \in {"unset", "returns", "logged"}

\* C16: a save whose descriptor has no 'type' key, or has it None or empty,
\* fails with 400 and the store is as before (the pre-save hook, if
\* there is one, not failing).
C16_MissingType ==
    /\ last.op = "save" /\ last.hook \in {"unset", "returns"}
    /\ last.given.type \in {"Missing", "None"}
    => last.exc = "HTTP400" /\ store = prev

\* a save of a file whose descriptor has no content or no valid format
BadFileSave ==
    /\ last.op = "save" /\ HookPasses
    /\ last.given.type = "file"
    /\ ~last.given.has_content \/ last.given.format \notin Formats

\* C17: a save of a file whose descriptor has no 'content' key, or whose
\* format is absent or not one of text and base64, fails with 400 and the
\* store is as before: no file is made at the path and a file there keeps
\* its bytes.
C17_BadFormat ==
    BadFileSave => last.exc = "HTTP400" /\ store = prev

\* such a save on the path of a stored file with bytes, with content and a
\* format that is not one of the two
C17_Witness ==
    /\ BadFileSave
    /\ last.given.has_content /\ last.given.format = "json"
    /\ ~escapes(last.path)
    /\ isfile(prev, target) /\ prev[target].bytes # <<>>

\* C18: in every save with a pre-save hook the hook is called once, and
\* before the kind is looked at: where the hook's failure comes out of
\* run_pre_save_hook the save fails with it whatever the descriptor is, and
\* the store is as before.
C18_HookFirst ==
    last.op = "save" /\ last.hook # "unset" =>
        /\ last.hook_calls = 1
        /\ last.hook = "raises" => last.exc = "HookError" /\ store = prev

----------------------------------------------------------------------------
(* Properties of delete.                                                   *)

\* the entries below the directory at q
children(st, q) == {p \in DOMAIN st : p # q /\ dirname(p) = q}

\* a delete, by either variant, of a path other than the root
DeletedBelowRoot ==
    /\ last.op \in {"delete", "mixin_delete"}
    /\ escapes(last.path) \/ target # Root

\* after the removal nothing is readable at the path
Gone ==
    /\ get(store, last.path, FALSE, "None", "None").exc = "HTTP404"
    /\ ~file_exists(store, last.path).value
    /\ ~dir_exists(store, last.path).value

\* C19: by either variant, a delete of a path that holds neither a file
\* nor a directory fails with 404 and changes nothing; a delete of a file or
\* of an empty directory removes it: get fails with 404, file_exists and
\* dir_exists are false at the path, and every other entry is as before.
C19_DeleteSemantics ==
    DeletedBelowRoot =>
        IF escapes(last.path) \/ ~exists(prev, target)
        THEN last.exc = "HTTP404" /\ store = prev
        ELSE isfile(prev, target) \/ children(prev, target) = {} =>
                 last.exc = NoExc /\ RemovedOnly(target) /\ Gone

\* the errors of the backend (fs.errors)
BackendErrors ==
    {"ResourceNotFound", "IllegalBackReference", "DestinationExists",
     "FileExpected", "DirectoryExpected", "DirectoryNotEmpty", "RemoveRootError"}

\* C20: a delete of a directory that has children fails with 409 and
\* changes nothing, and no get, save, delete or rename of the manager fails
\* with an error of the backend.
C20_ErrorsTranslated ==
    /\ last.op \in {"get", "save", "delete", "rename"}
          => last.exc \notin BackendErrors
    /\ (/\ last.op = "delete" /\ ~escapes(last.path)
        /\ isdir(prev, target) /\ children(prev, target) # {})
       => last.exc = "HTTP409" /\ store = prev

----------------------------------------------------------------------------
(* Properties of the descriptors.                                          *)

\* a get, by either variant, that returned the listing of a directory
Listed ==
    /\ last.op \in {"get", "mixin_get"} /\ last.exc = NoExc
    /\ last.content /\ last.model.type = "directory"

\* the kind inferred for the child at q: a directory is a directory
\* whatever its name is
inferred(st, q) ==
    IF isdir(st, q) THEN "directory"
    ELSE IF endswith_ipynb(q) THEN "notebook" ELSE "file"

\* C21: the listing of a directory, by either variant and for every
\* format passed, has one descriptor for each immediate child and no other;
\* each has the kind inferred for the child (directory for a directory,
\* notebook for a file whose name ends in .ipynb, else file) and no content,
\* format or mimetype.
C21_Listing ==
    Listed =>
        LET listing(items) ==
                /\ {c.name : c \in items} = scandir(prev, target)
                /\ Cardinality(items) = Cardinality(scandir(prev, target))
                /\ \A c \in items :
                      /\ c.type = inferred(prev, join(target, <<c.name>>))
                      /\ c.content = None
                      /\ c.format = "None"
                      /\ c.mimetype = "None"
        IN listing(last.model.content[1])

\* a descriptor without content has no format and no mimetype, and the
\* descriptor of a directory has no size and no mimetype
Shaped(m) ==
    /\ m.content = None => m.format = "None" /\ m.mimetype = "None"
    /\ m.type = "directory" => m.size = None /\ m.mimetype = "None"

\* a get or a save, by any variant, that returned a descriptor
Returned ==
    /\ last.op \in {"get", "save", "mixin_get", "omero_get"}
    /\ last.exc = NoExc

\* C22: every descriptor returned by a get or a save of any variant, the
\* descriptors of the children in a listing among them, has no format and
\* no mimetype where it has no content, and no size and no mimetype where it
\* is of a directory.
C22_DescriptorShape ==
    Returned =>
        /\ Shaped(last.model)
        /\ last.model.type = "directory" /\ last.model.content # None
              => \A c \in last.model.content[1] : Shaped(c)

\* what the store holds at the get's path
held == IF escapes(last.path) \/ ~exists(prev, target) THEN "nothing"
        ELSE kind(prev, target)

\* a get with an explicit kind
GotAs(type) == last.op = "get" /\ last.type = type

\* C23: a get with an explicit kind fails with 404 where the path holds a
\* directory and the kind is file or notebook, where it holds a file and
\* the kind is directory, and where it holds nothing; it changes nothing.  A
\* get with kind file of a file whose name ends in .ipynb, with no format
\* asked for, succeeds with kind file and the file's text (its base64 where
\* the bytes are not UTF-8), not the parsed notebook.
C23_ExplicitKind ==
    /\ last.op = "get" => store = prev
    /\ (\/ (GotAs("file") \/ GotAs("notebook")) /\ held = "directory"
        \/ GotAs("directory") /\ held = "file"
        \/ last.op = "get" /\ last.type # "None" /\ held = "nothing")
       => last.exc = "HTTP404" /\ last.model = NoModel
    /\ GotAs("file") /\ held = "file" /\ endswith_ipynb(last.path)
          /\ last.format = "None"
       => /\ last.exc = NoExc
          /\ last.model.type = "file"
          /\ last.content =>
                /\ last.model.format \in Formats
                /\ content_bytes(last.model.content[1], last.model.format)
                       = prev[target].bytes

\* a stored file named n.ipynb whose text is a notebook document, got with
\* its content as a file
C23_Witness ==
    /\ GotAs("file") /\ last.content /\ last.format = "None"
    /\ held = "file" /\ endswith_ipynb(last.path)
    /\ nbformat_reads_ok(last.model.content, last.model.format)

\* a path that begins with '/', has no "." or ".." segment, no two
\* adjacent slashes and no slash at its end, or is the root "/"
Normalized(p) ==
    /\ Len(p) >= 2 /\ p[1] = ""
    /\ p = Root \/ \A i \in 2..Len(p) : p[i] \notin {"", ".", ".."}

\* a path with no '/' at either end, no "." or ".." segment and no two
\* adjacent slashes, or the empty path
Relative(p) == p = <<"">> \/ \A i \in 1..Len(p) : p[i] \notin {"", ".", ".."}

\* a get or a save of the manager that returned a descriptor
ReturnedByManager == last.op \in {"get", "save"} /\ last.exc = NoExc

\* the descriptors of the children, where the answer is a listing
listed_children ==
    IF last.model.type = "directory" /\ last.model.content # None
    THEN last.model.content[1] ELSE {}

\* C24 as stated: the path of every descriptor returned by a get or a save,
\* and of every child in a listing, begins with '/', has no "." or ".."
\* segment, no two adjacent slashes and no slash at its end unless it is the
\* root.
C24_PathNormalized_Stated ==
    ReturnedByManager =>
        /\ Normalized(last.model.path)
        /\ \A c \in listed_children : Normalized(c.path)

\* C24: the path of every descriptor returned by a get or a save of
\* FsContentsManager is the canonical path of the entry without its leading
\* '/': it has no '/' at either end, no "." or ".." segment and no two
\* adjacent slashes, and it is empty for the root; the same holds for every
\* child in a listing.
C24_PathNormalized ==
    ReturnedByManager =>
        /\ Relative(last.model.path)
        /\ <<"">> \o last.model.path = target
        /\ \A c \in listed_children :
              /\ Relative(c.path)
              /\ <<"">> \o c.path = join(target, <<c.name>>)

\* the listing of a directory with a child, asked for under a spelling of
\* its path that is not the canonical one
C24_Witness ==
    /\ ReturnedByManager /\ last.op = "get"
    /\ listed_children # {}
    /\ target # Root
    /\ <<"">> \o last.path # target

----------------------------------------------------------------------------
(* Properties of the requests in steps.                                    *)

\* a file save that returned a descriptor
SavedFile == last.op = "save_file" /\ last.exc = NoExc

\* the bytes the save wrote
committed == content_bytes(last.given.content, last.given.format)

\* C25 as stated: the descriptor a successful file save returns has no
\* content and the size of the bytes this save wrote, also where a request
\* of another client ran between the write and the re-read.
C25_SavedSize_Stated ==
    SavedFile =>
        /\ last.model.content = None
        /\ last.model.size = Some(Len(committed))

\* C25: the descriptor a successful file save returns has no content and
\* the size of the file that is at the path when the save re-reads it; this
\* is the size of the bytes the save wrote where no request of another
\* client ran between the write and the re-read, and such a save fails
\* only before it has written.
C25_SavedSize ==
    /\ SavedFile =>
          /\ last.model.content = None
          /\ last.model.size = Some(Len(store[target].bytes))
          /\ last.records = <<>> => last.model.size = Some(Len(committed))
    /\ last.op = "save_file" /\ last.records = <<>> /\ last.exc # NoExc
          => store = prev

\* a save that succeeded with the save of another client between its write
\* and its re-read
C25_Witness ==
    /\ SavedFile
    /\ last.records = <<"save">>
    /\ committed # <<>>

----------------------------------------------------------------------------
(* Properties of rename_file and the checkpoints.                          *)

\* rename_file(old, new) returned for a document, a file or notebook, that
\* has a checkpoint
RenamedCheckpointed ==
    /\ last.op = "rename" /\ last.exc = NoExc
    /\ isfile(prev, target)
    /\ isfile(prev, cp_target)

\* the checkpoint of old is where it was, with the bytes it had
CheckpointStays == isfile(store, cp_target) /\ store[cp_target] = prev[cp_target]

\* C26 as stated: after a successful rename_file(old, new) of a document that
\* has a checkpoint, the checkpoint file is still at the path derived from
\* old with unchanged content, and list_checkpoints(new) returns no record.
C26_RenameLeavesCheckpoint_Stated ==
    RenamedCheckpointed =>
        /\ CheckpointStays
        /\ list_checkpoints(store, last.new_path).records = <<>>

\* C26: after a successful rename_file(old, new) of a document that has a
\* checkpoint, the checkpoint file is still at the path derived from old with
\* unchanged content, and list_checkpoints(new) returns what it returned
\* before the rename: no record unless a checkpoint file was already at the
\* path derived from new.  The rename of a file changes no entry of a
\* checkpoint directory.
C26_RenameLeavesCheckpoint ==
    RenamedCheckpointed =>
        /\ CheckpointStays
        /\ list_checkpoints(store, last.new_path).records
              = list_checkpoints(prev, last.new_path).records
        /\ ~isfile(prev, cp_new_target)
              => list_checkpoints(store, last.new_path).records = <<>>
        /\ \A q \in DOMAIN store \cup DOMAIN prev :
              reserved(q) => /\ q \in DOMAIN store /\ q \in DOMAIN prev
                             /\ store[q] = prev[q]

\* a file with a checkpoint renamed to a path that has no checkpoint
C26_Witness ==
    /\ RenamedCheckpointed
    /\ isfile(store, new_target)
    /\ prev[cp_target].bytes # <<>>
    /\ list_checkpoints(store, last.new_path).records = <<>>

----------------------------------------------------------------------------
(* Properties of the trust store.                                          *)

\* call a is made, and before every call b
Before(calls, a, b) ==
    /\ \E i \in 1..Len(calls) : calls[i] = a
    /\ \A j \in 1..Len(calls) :
          calls[j] = b => \E i \in 1..(j - 1) : calls[i] = a

Made(calls, a) == \E i \in 1..Len(calls) : calls[i] = a

\* a save of a notebook descriptor with content that reached _save_notebook
SavedNotebook ==
    /\ last.op = "save" /\ last.given.type = "notebook"
    /\ last.given.has_content /\ HookPasses

\* a get with content that read and parsed a notebook
GotNotebook ==
    /\ last.op = "get" /\ last.content
    /\ last.exc = NoExc /\ last.model.type = "notebook"

\* C27: create_notebook_checkpoint never invokes the signing step and
\* get_notebook_checkpoint never invokes trust-marking or validation; every
\* regular notebook save invokes signing before the bytes are written, and
\* every regular notebook get with content invokes trust-marking and then
\* validation after parsing.
C27_CheckpointsUnsigned ==
    /\ last.op = "create_notebook_checkpoint"
          => ~Made(last.calls, "check_and_sign")
    /\ last.op = "get_notebook_checkpoint"
          => /\ ~Made(last.calls, "mark_trusted_cells")
             /\ ~Made(last.calls, "validate_notebook_model")
    /\ SavedNotebook => Before(last.calls, "check_and_sign", "write")
    /\ last.op = "save" /\ last.given.type = "notebook" /\ last.exc = NoExc
          => last.calls = <<"from_dict", "check_and_sign", "writes", "write">>
    /\ GotNotebook
          => last.calls = <<"reads", "mark_trusted_cells", "validate_notebook_model">>

\* a notebook checkpoint written, with the codec but without the trust store
C27_Witness ==
    /\ last.op = "create_notebook_checkpoint" /\ last.exc = NoExc
    /\ last.calls = <<"from_dict", "writes", "write">>
    /\ isfile(store, cp_target) /\ ~isfile(prev, cp_target)

----------------------------------------------------------------------------
(* Properties of the renames in steps.                                     *)

\* two renames of different directories to the same target, both past the
\* check before either moved, and both moved
Raced ==
    /\ last.op = "rename" /\ Len(last.records) = 4
    /\ last.records[1].is_dir /\ last.records[2].is_dir
    /\ last.records[2].exc = NoExc
    /\ last.records[1].new = last.records[2].new
    /\ last.records[1].old # last.records[2].old

\* the entries of prev below old, as they are read below new
carried(old, new) ==
    {<<new \o SubSeq(q, Len(old) + 1, Len(q)), prev[q]>> :
        q \in {r \in DOMAIN prev : isbase(old, r)}}

arrived(old, new) ==
    \A e \in carried(old, new) : exists(store, e[1]) /\ store[e[1]] = e[2]

\* neither directory is the other or within it
apart(p, q) == ~isbase(p, q) /\ ~isbase(q, p)

\* C28: the target test and the backend's move of rename_file are separate
\* steps.  Where two renames of different directories to the same absent
\* target both pass the test before either moves, both moves are made and
\* the outcome, the store and the answer of each rename, is the one of the
\* backend's two moves in their order.  With neither directory within the
\* other, neither rename is refused: both sources are gone and the target
\* holds the entries of the directory moved last; the entries of the
\* directory moved first are in it where the backend's move copies into
\* the target, and are lost where it puts the moved directory in the
\* target's place.
C28_RenameRace ==
    LET first(m1) == movedir(prev, m1.old, m1.new, m1.impl)
        second(mid, m2) == movedir(mid, m2.old, m2.new, m2.impl)
        backend(m1, m2) ==
            /\ ~exists(prev, m1.new)
            /\ m1.exc = wrap_fs_errors(first(m1).exc)
            /\ m2.exc = wrap_fs_errors(second(first(m1).store, m2).exc)
            /\ store = second(first(m1).store, m2).store
        effect(m1, m2) ==
            /\ m1.exc = NoExc /\ m2.exc = NoExc
            /\ ~exists(store, m1.old) /\ ~exists(store, m2.old)
            /\ isdir(store, m2.new)
            /\ arrived(m2.old, m2.new)
            /\ m2.impl = "copy"
                  => \A e \in carried(m1.old, m1.new) :
                        /\ exists(store, e[1])
                        /\ store[e[1]] = e[2]
                              \/ \E d \in carried(m2.old, m2.new) : d[1] = e[1]
            /\ m2.impl = "relink"
                  => \A q \in DOMAIN store :
                        isbase(m2.new, q)
                            => \E d \in carried(m2.old, m2.new) : d[1] = q
        outcome(m1, m2) ==
            /\ backend(m1, m2)
            /\ apart(m1.old, m2.old) => effect(m1, m2)
    IN Raced => outcome(last.records[3], last.records[4])

\* both renames made, and the file of the directory moved first lost
C28_Witness ==
    /\ Raced
    /\ apart(last.records[1].old, last.records[2].old)
    /\ last.records[4].impl = "relink"
    /\ \E e \in carried(last.records[3].old, last.records[3].new) :
          e[1] # last.records[3].new /\ ~exists(store, e[1])

----------------------------------------------------------------------------
(* Properties of the encoding of a saved file.                             *)

\* a file save that got as far as the encoding and failed there
EncodingError ==
    /\ last.op \in {"save", "omero_save"}
    /\ last.given.type = "file" /\ last.given.has_content
    /\ last.given.format = "base64" /\ ~b64decode(last.given.content).ok
    /\ last.exc = "HTTP400"

\* C29: a file save that fails with the encoding error (400) leaves the
\* store exactly as it was, in every variant: no new entry is at the path
\* and an existing file keeps its bytes.
C29_EncodingErrorAtomic == EncodingError => store = prev

----------------------------------------------------------------------------
(* Properties of the checkpoint as a snapshot.                             *)

\* the entries of st that are not of a checkpoint directory
documents(st) == {q \in DOMAIN st : ~reserved(q)}

\* the entries of st that are of a checkpoint directory
snapshots(st) == {q \in DOMAIN st : reserved(q)}

\* the checkpoint of every document reads after as it read before
SameSnapshots ==
    /\ snapshots(store) = snapshots(prev)
    /\ \A q \in snapshots(store) : store[q] = prev[q]
    /\ \A p \in CheckpointDocs :
          get_file_checkpoint(store, 0, p) = get_file_checkpoint(prev, 0, p)

\* the checkpoint reads as the bytes given to the create, as text where they
\* are UTF-8 and as base64 where they are not
ReadsGiven ==
    LET reads(r, given) ==
            /\ r.exc = NoExc
            /\ r.model.format = IF utf8_decode(given).ok THEN "text" ELSE "base64"
            /\ content_bytes(r.model.content[1], r.model.format) = given
    IN reads(get_file_checkpoint(store, 0, last.path),
             content_bytes(last.given.content, last.given.format))

\* C30: a save of a document, whatever it writes, leaves every checkpoint
\* as it was, so that after any saves the checkpoint still reads as it did
\* after its create; after create_file_checkpoint(content, format, path)
\* get_file_checkpoint(0, path) returns content that decodes to the bytes
\* given, with format text where they are UTF-8 and base64 where not,
\* whatever format was given; a create changes no document.
C30_StableSnapshot ==
    /\ last.op = "save" => SameSnapshots
    /\ last.op = "create_file_checkpoint" /\ last.exc = NoExc => ReadsGiven
    /\ last.op \in {"create_file_checkpoint", "create_notebook_checkpoint"}
          => /\ documents(store) = documents(prev)
             /\ \A q \in documents(store) : store[q] = prev[q]

\* a document saved with bytes other than those of its checkpoint
C30_Witness ==
    /\ last.op = "save" /\ last.exc = NoExc
    /\ isfile(prev, target) /\ isfile(prev, cp_target)
    /\ isfile(store, target)
    /\ store[target].bytes # store[cp_target].bytes

====
